---- MODULE Spec2Model ----
(***************************************************************************)
(* A model of the hazelmere-web dashboard's derivation engine:             *)
(*   - the binary snapshot/delta decoder;                                  *)
(*   - the API client's in-flight request deduplication;                   *)
(*   - the drag-to-select controllers of the line and the bar chart;       *)
(*   - the two chart-data transformers (snapshot mode and delta mode);     *)
(*   - the interquartile-range anomaly detection;                          *)
(*   - the gain summary over a delta sequence;                             *)
(*   - the gains between two snapshots;                                    *)
(*   - the calendar heatmap's week-column grid;                            *)
(*   - the gains page's data hook and its no-data panel;                   *)
(*   - the combat level of a snapshot;                                     *)
(*   - the bar chart's mouse and touch gestures;                           *)
(*   - the line chart's reveal animation;                                  *)
(* - the hover grace period after a touch on the bar chart and the         *)
(*     heatmap;                                                            *)
(*   - the daily bar chart's ceiling and overflow colour;                  *)
(*   - the bar renderer's choice of the bar width;                         *)
(*   - the gains page's summary card next to its chart;                    *)
(*   - the calendar heatmap's gain per day;                                *)
(*   - the skill breakdown of a chart point.                               *)
(* Each component has its own variables, initial condition, next-state     *)
(* relation and specification; a component's specification leaves the      *)
(* other components' variables at their idle value.                        *)
(***************************************************************************)
EXTENDS Integers, Sequences, FiniteSets, TLC

VARIABLES
    buffer,             \* decoder: the ArrayBuffer handed to decodeBinaryDeltaResponse
    wire,               \* decoder: what the sender encoded into the buffer (history)
    decoded,            \* decoder: the outcome of the call (return value or exception)
    inFlightRequests,   \* api: the Map from cache key to request promise
    requests,           \* api: the request promises created, with their fetch
    calls,              \* api: the calls of getSnapshotInterval made so far
    fetchLog,           \* api: the keys of the fetches issued, in order
    chartProps,         \* chart: which chart is mounted and its props
    lineChart,          \* chart: the line chart's drag-selection and hover state
    barChart,           \* chart: the bar chart's range-selection and hover state
    mouse,              \* chart: the pointer (position, button, on the canvas or not)
    release,            \* chart: what the last release of the button found (history)
    selected,           \* chart: the calls of onTimeRangeSelect since the last press
    snapshots,          \* transformer: the snapshot sequence of the snapshot mode
    deltaResponse,      \* transformer: the snapshot and deltas of the delta mode
    selectedActivity,   \* transformer: the activity selection
    intervals,          \* transformer: what the input was built from (history)
    chartData,          \* transformer: the points each generator returned
    chartDataAgain,     \* transformer: the points each generator returned when called again
    givenInput,         \* transformer: the input as it was handed over (history)
    overallChartData,   \* anomaly: the chart points handed to detectAnomalyTimestamps
    anomalyTimestamps,  \* anomaly: the timestamps each copy of the function flagged
    summaryDeltas,      \* deltaGains: the deltas handed to calculateGainsFromDeltas
    deltaGainsSummary,  \* deltaGains: the summary calculateGainsFromDeltas returned
    olderSnapshot,      \* snapshotGains: the first argument of calculateGains (<<>> for null)
    newerSnapshot,      \* snapshotGains: the second argument of calculateGains (<<>> for null)
    snapshotGains,      \* snapshotGains: what calculateGains returned
    heatmapRange,       \* heatmap: the time range handed to the heatmap
    heatmap,            \* heatmap: the cells the heatmap generated
    pageUser,           \* page: the page's userId state
    pageRange,          \* page: the page's timeRange state
    hookState,          \* page: useSnapshotInterval's state (data, loading, error)
    effectPending,      \* page: the effect that calls fetchData has yet to run
    pendingFetches,     \* page: the requests in flight, by user and time range
    fetchStarted,       \* page: a fetch has been started (history)
    lastSettled,        \* page: the request that settled last (history)
    combatSkills,       \* combat: the skills handed to calculateCombatLevel
    combatLevel,        \* combat: the level calculateCombatLevel returned
    gestureProps,       \* gesture: the bar chart's props
    gesture,            \* gesture: the bar chart's gesture refs and state
    touches,            \* gesture: the x positions of the fingers on the canvas
    pointer,            \* gesture: the mouse pointer (position, button)
    hoverTimers,        \* gesture: the armed hover-clearing timers
    pinchMoves,         \* gesture: the two-finger moves handled so far
    gestureEvent,       \* gesture: the last event handled (history)
    revealData,         \* reveal: the line chart's data prop (identity and array)
    reveal,             \* reveal: the line chart's animation refs and state
    revealEffectDue,    \* reveal: whether the animation effect is still to run
    revealTimeouts,     \* reveal: the start timers pending in the browser
    revealFrames,       \* reveal: the animation frames pending in the browser
    revealAnimations,   \* reveal: the animations started so far
    revealWriter,       \* reveal: the animation that wrote the progress last (history)
    revealChanges,      \* reveal: the changes of the data's identity so far
    graceChart,         \* grace: which chart is touched, and whether it is mounted
    graceState,         \* grace: the chart's gesture and hover state
    graceTouches,       \* grace: the fingers on the chart
    graceTimers,        \* grace: the ticks left to each pending hover-clearing timer
    graceLift,          \* grace: the last lift of the last finger (history)
    graceTimerRan,      \* grace: what the timers that ran found (history)
    dailyResponse,      \* overflow: the delta response the daily bar chart was given
    dailySelection,     \* overflow: the activity selection of the daily bar chart
    dailyColours,       \* overflow: the ceiling, the anomalies and the bars drawn in the overflow colour
    widthProps,         \* barwidth: the bar chart's width and data, timestamps in hours
    widthView,          \* barwidth: the bar chart's view window, <<>> when not zoomed
    widthDrawn,         \* barwidth: the bar width the last render handed to the shader
    trackerResponse,    \* tracker: the delta response the gains page holds
    trackerSelection,   \* tracker: the gains page's selected activity
    tracker,            \* tracker: the chart points and the summary card's total gain
    dayDeltas,          \* daygains: the deltas the heatmap holds, in time order
    dayCells,           \* daygains: the gain per day the heatmap computed, from deltas and from snapshots
    breakdownGains,     \* breakdown: the experience each skill gained in the interval
    breakdownSelection, \* breakdown: the activity selection of the chart
    breakdownPoints     \* breakdown: the chart points the two generators made of the interval

decoderVars == <<buffer, wire, decoded>>

apiVars == <<inFlightRequests, requests, calls, fetchLog>>

chartVars == <<chartProps, lineChart, barChart, mouse, release, selected>>

transformerVars == <<snapshots, deltaResponse, selectedActivity, intervals, chartData, chartDataAgain, givenInput>>

anomalyVars == <<overallChartData, anomalyTimestamps>>

deltaGainsVars == <<summaryDeltas, deltaGainsSummary>>

snapshotGainsVars == <<olderSnapshot, newerSnapshot, snapshotGains>>

heatmapVars == <<heatmapRange, heatmap>>

pageVars == <<pageUser, pageRange, hookState, effectPending, pendingFetches, fetchStarted, lastSettled>>

combatVars == <<combatSkills, combatLevel>>

gestureVars == <<gestureProps, gesture, touches, pointer, hoverTimers, pinchMoves, gestureEvent>>

revealVars == <<revealData, reveal, revealEffectDue, revealTimeouts, revealFrames, revealAnimations, revealWriter, revealChanges>>

graceVars == <<graceChart, graceState, graceTouches, graceTimers, graceLift, graceTimerRan>>

overflowVars == <<dailyResponse, dailySelection, dailyColours>>

barwidthVars == <<widthProps, widthView, widthDrawn>>

trackerVars == <<trackerResponse, trackerSelection, tracker>>

daygainsVars == <<dayDeltas, dayCells>>

breakdownVars == <<breakdownGains, breakdownSelection, breakdownPoints>>

vars == <<decoderVars, apiVars, chartVars, transformerVars, anomalyVars, deltaGainsVars, snapshotGainsVars, heatmapVars, pageVars, combatVars, gestureVars, revealVars, graceVars, overflowVars, barwidthVars, trackerVars, daygainsVars, breakdownVars>>

\* What a component's actions leave unchanged: the other components.
notDecoder == <<apiVars, chartVars, transformerVars, anomalyVars, deltaGainsVars, snapshotGainsVars, heatmapVars, pageVars, combatVars, gestureVars, revealVars, graceVars, overflowVars, barwidthVars, trackerVars, daygainsVars, breakdownVars>>

notApi == <<decoderVars, chartVars, transformerVars, anomalyVars, deltaGainsVars, snapshotGainsVars, heatmapVars, pageVars, combatVars, gestureVars, revealVars, graceVars, overflowVars, barwidthVars, trackerVars, daygainsVars, breakdownVars>>

notChart == <<decoderVars, apiVars, transformerVars, anomalyVars, deltaGainsVars, snapshotGainsVars, heatmapVars, pageVars, combatVars, gestureVars, revealVars, graceVars, overflowVars, barwidthVars, trackerVars, daygainsVars, breakdownVars>>

notTransformer == <<decoderVars, apiVars, chartVars, anomalyVars, deltaGainsVars, snapshotGainsVars, heatmapVars, pageVars, combatVars, gestureVars, revealVars, graceVars, overflowVars, barwidthVars, trackerVars, daygainsVars, breakdownVars>>

notAnomaly == <<decoderVars, apiVars, chartVars, transformerVars, deltaGainsVars, snapshotGainsVars, heatmapVars, pageVars, combatVars, gestureVars, revealVars, graceVars, overflowVars, barwidthVars, trackerVars, daygainsVars, breakdownVars>>

notDeltaGains == <<decoderVars, apiVars, chartVars, transformerVars, anomalyVars, snapshotGainsVars, heatmapVars, pageVars, combatVars, gestureVars, revealVars, graceVars, overflowVars, barwidthVars, trackerVars, daygainsVars, breakdownVars>>

notSnapshotGains == <<decoderVars, apiVars, chartVars, transformerVars, anomalyVars, deltaGainsVars, heatmapVars, pageVars, combatVars, gestureVars, revealVars, graceVars, overflowVars, barwidthVars, trackerVars, daygainsVars, breakdownVars>>

notHeatmap == <<decoderVars, apiVars, chartVars, transformerVars, anomalyVars, deltaGainsVars, snapshotGainsVars, pageVars, combatVars, gestureVars, revealVars, graceVars, overflowVars, barwidthVars, trackerVars, daygainsVars, breakdownVars>>

notPage == <<decoderVars, apiVars, chartVars, transformerVars, anomalyVars, deltaGainsVars, snapshotGainsVars, heatmapVars, combatVars, gestureVars, revealVars, graceVars, overflowVars, barwidthVars, trackerVars, daygainsVars, breakdownVars>>

notCombat == <<decoderVars, apiVars, chartVars, transformerVars, anomalyVars, deltaGainsVars, snapshotGainsVars, heatmapVars, pageVars, gestureVars, revealVars, graceVars, overflowVars, barwidthVars, trackerVars, daygainsVars, breakdownVars>>

notGesture == <<decoderVars, apiVars, chartVars, transformerVars, anomalyVars, deltaGainsVars, snapshotGainsVars, heatmapVars, pageVars, combatVars, revealVars, graceVars, overflowVars, barwidthVars, trackerVars, daygainsVars, breakdownVars>>

notReveal == <<decoderVars, apiVars, chartVars, transformerVars, anomalyVars, deltaGainsVars, snapshotGainsVars, heatmapVars, pageVars, combatVars, gestureVars, graceVars, overflowVars, barwidthVars, trackerVars, daygainsVars, breakdownVars>>

notGrace == <<decoderVars, apiVars, chartVars, transformerVars, anomalyVars, deltaGainsVars, snapshotGainsVars, heatmapVars, pageVars, combatVars, gestureVars, revealVars, overflowVars, barwidthVars, trackerVars, daygainsVars, breakdownVars>>

notOverflow == <<decoderVars, apiVars, chartVars, transformerVars, anomalyVars, deltaGainsVars, snapshotGainsVars, heatmapVars, pageVars, combatVars, gestureVars, revealVars, graceVars, barwidthVars, trackerVars, daygainsVars, breakdownVars>>

notBarWidth == <<decoderVars, apiVars, chartVars, transformerVars, anomalyVars, deltaGainsVars, snapshotGainsVars, heatmapVars, pageVars, combatVars, gestureVars, revealVars, graceVars, overflowVars, trackerVars, daygainsVars, breakdownVars>>

notTracker == <<decoderVars, apiVars, chartVars, transformerVars, anomalyVars, deltaGainsVars, snapshotGainsVars, heatmapVars, pageVars, combatVars, gestureVars, revealVars, graceVars, overflowVars, barwidthVars, daygainsVars, breakdownVars>>

notDayGains == <<decoderVars, apiVars, chartVars, transformerVars, anomalyVars, deltaGainsVars, snapshotGainsVars, heatmapVars, pageVars, combatVars, gestureVars, revealVars, graceVars, overflowVars, barwidthVars, trackerVars, breakdownVars>>

notBreakdown == <<decoderVars, apiVars, chartVars, transformerVars, anomalyVars, deltaGainsVars, snapshotGainsVars, heatmapVars, pageVars, combatVars, gestureVars, revealVars, graceVars, overflowVars, barwidthVars, trackerVars, daygainsVars>>

(***************************************************************************)
(* Activity taxonomy: the ordinal table of the binary protocol.            *)
(***************************************************************************)
ACTIVITY_TYPE_INDEX_MAP == <<
    "UNKNOWN", "OVERALL", "ATTACK", "DEFENCE", "STRENGTH", "HITPOINTS",
    "RANGED", "PRAYER", "MAGIC", "COOKING", "WOODCUTTING", "FLETCHING",
    "FISHING", "FIREMAKING", "CRAFTING", "SMITHING", "MINING", "HERBLORE",
    "AGILITY", "THIEVING", "SLAYER", "FARMING", "RUNECRAFT", "HUNTER",
    "CONSTRUCTION", "SAILING", "LEAGUE_POINTS", "DEADMAN_POINTS",
    "BOUNTY_HUNTER__HUNTER", "BOUNTY_HUNTER__ROGUE",
    "BOUNTY_HUNTER_LEGACY__HUNTER", "BOUNTY_HUNTER_LEGACY__ROGUE",
    "CLUE_SCROLLS_ALL", "CLUE_SCROLLS_BEGINNER", "CLUE_SCROLLS_EASY",
    "CLUE_SCROLLS_MEDIUM", "CLUE_SCROLLS_HARD", "CLUE_SCROLLS_ELITE",
    "CLUE_SCROLLS_MASTER", "GRID_POINTS", "LMS__RANK", "PVP_ARENA__RANK",
    "SOUL_WARS_ZEAL", "RIFTS_CLOSED", "COLOSSEUM_GLORY",
    "COLLECTIONS_LOGGED", "ABYSSAL_SIRE", "ALCHEMICAL_HYDRA", "AMOXLIATL",
    "ARAXXOR", "ARTIO", "BARROWS_CHESTS", "BRYOPHYTA", "CALLISTO",
    "CALVARION", "CERBERUS", "CHAMBERS_OF_XERIC",
    "CHAMBERS_OF_XERIC_CHALLENGE_MODE", "CHAOS_ELEMENTAL", "CHAOS_FANATIC",
    "COMMANDER_ZILYANA", "CORPOREAL_BEAST", "CRAZY_ARCHAEOLOGIST",
    "DAGANNOTH_PRIME", "DAGANNOTH_REX", "DAGANNOTH_SUPREME",
    "DERANGED_ARCHAEOLOGIST", "DOOM_OF_MOKHAIOTL", "DUKE_SUCELLUS",
    "GENERAL_GRAARDOR", "GIANT_MOLE", "GROTESQUE_GUARDIANS", "HESPORI",
    "KALPHITE_QUEEN", "KING_BLACK_DRAGON", "KRAKEN", "KREEARRA",
    "KRIL_TSUTSAROTH", "LUNAR_CHESTS", "MIMIC", "NEX", "NIGHTMARE",
    "PHOSANIS_NIGHTMARE", "OBOR", "PHANTOM_MUSPAH", "SARACHNIS", "SCORPIA",
    "SCURRIUS", "SHELLBANE_GRYPHON", "SKOTIZO", "SOL_HEREDIT", "SPINDEL",
    "TEMPOROSS", "THE_GAUNTLET", "THE_CORRUPTED_GAUNTLET", "THE_HUEYCOATL",
    "THE_LEVIATHAN", "THE_ROYAL_TITANS", "THE_WHISPERER", "THEATRE_OF_BLOOD",
    "THEATRE_OF_BLOOD_HARD_MODE", "THERMONUCLEAR_SMOKE_DEVIL",
    "TOMBS_OF_AMASCUT", "TOMBS_OF_AMASCUT_EXPERT_MODE", "TZKALZUK",
    "TZTOKJAD", "VARDORVIS", "VENENATIS", "VETION", "VORKATH", "WINTERTODT",
    "YAMA", "ZALCANO", "ZULRAH"
>>

\* ActivityTypeAt without its fallback: indexes the table alone,
\* and an ordinal outside the table yields JavaScript's undefined.
ActivityTypeAtNoFallback(ordinal) ==
    IF ordinal < Len(ACTIVITY_TYPE_INDEX_MAP)
    THEN ACTIVITY_TYPE_INDEX_MAP[ordinal + 1]
    ELSE "undefined"

\* ACTIVITY_TYPE_INDEX_MAP[activityTypeIndex] || 'UNKNOWN': the table is
\* zero-based, an index past its end reads undefined, which is falsy.
ActivityTypeAt(ordinal) ==
    IF ordinal < Len(ACTIVITY_TYPE_INDEX_MAP)
    THEN ACTIVITY_TYPE_INDEX_MAP[ordinal + 1]
    ELSE "UNKNOWN"

\* getActivityName title-cases each '_'-separated word and joins the words
\* with blanks: it maps every character to one character, so the name is
\* as long as the identifier.  The model keeps the length of the name.
getActivityNameLength(activityType) == Len(activityType)

(***************************************************************************)
(* BinaryReader: big-endian reads over a DataView.  A DataView read that   *)
(* does not fit in the buffer throws a RangeError.                         *)
(***************************************************************************)
\* InBounds without the check: every read is let through.
InBoundsUnchecked(buf, offset, size) == TRUE

\* DataView.getX(offset): the read needs offset + size <= byteLength.
InBounds(buf, offset, size) == offset + size <= Len(buf)

\* The byte at a zero-based offset (0 past the end: only reachable when
\* the bounds check is disabled).
ByteAt(buf, offset) == IF offset < Len(buf) THEN buf[offset + 1] ELSE 0

getUint8(buf, offset) == ByteAt(buf, offset)

getUint16(buf, offset) == ByteAt(buf, offset) * 256 + ByteAt(buf, offset + 1)

getInt16(buf, offset) ==
    LET u == getUint16(buf, offset)
    IN  IF u >= 32768 THEN u - 65536 ELSE u

getInt32(buf, offset) ==
    LET b0 == ByteAt(buf, offset)
    IN  (IF b0 >= 128 THEN b0 - 256 ELSE b0) * 16777216
        + ByteAt(buf, offset + 1) * 65536
        + ByteAt(buf, offset + 2) * 256
        + ByteAt(buf, offset + 3)

\* A 64-bit integer is kept as four 16-bit limbs, most significant first,
\* the first one signed: its value is l1*2^48 + l2*2^32 + l3*2^16 + l4.
getBigInt64(buf, offset) ==
    << getInt16(buf, offset), getUint16(buf, offset + 2),
       getUint16(buf, offset + 4), getUint16(buf, offset + 6) >>

\* Lexicographic order on limbs is the numeric order of the integers.
LimbsLeq(a, b) ==
    \/ a[1] < b[1]
    \/ a[1] = b[1] /\ a[2] < b[2]
    \/ a[1] = b[1] /\ a[2] = b[2] /\ a[3] < b[3]
    \/ a[1] = b[1] /\ a[2] = b[2] /\ a[3] = b[3] /\ a[4] <= b[4]

\* 8,640,000,000,000,000 and its negation: the range of a Date's time value.
MaxTimeValue == <<30, 45576, 49884, 0>>
MinTimeValue == <<-31, 19959, 15652, 0>>

\* new Date(Number(t)).toISOString() throws a RangeError unless the time
\* value is within +-8.64e15 ms.  Number(t) is exact for |t| <= 2^53, which
\* contains that range, and rounding never moves a value into it.
IsValidTimeValue(t) == LimbsLeq(MinTimeValue, t) /\ LimbsLeq(t, MaxTimeValue)

\* The instant an ISO string written by toISOString denotes: the string has
\* millisecond precision, so it denotes the time value itself.
toISOString(t) == t

VersionError == "Error: Unsupported binary protocol version"
BoundsError == "RangeError: Offset is outside the bounds of the DataView"
TimeError == "RangeError: Invalid time value"

ErrorClass(e) ==
    IF e = VersionError THEN "Error"
    ELSE IF e \in {BoundsError, TimeError} THEN "RangeError"
    ELSE "none"

(***************************************************************************)
(* decodeBinaryDeltaResponse.  The six record loops differ in the fields   *)
(* they read and name; "kind" selects the loop.                            *)
(***************************************************************************)
RecordKinds ==
    {"skill", "boss", "activity", "skillDelta", "bossDelta", "activityDelta"}

HasLevel(kind) == kind \in {"skill", "skillDelta"}

RecordSize(kind) == IF HasLevel(kind) THEN 7 ELSE 5

\* The object pushed for one record; rank is not part of the protocol.
MakeRecord(kind, ordinal, value, level) ==
    LET t == ActivityTypeAt(ordinal)
        n == getActivityNameLength(t)
    IN  CASE kind = "skill" ->
               [activityType |-> t, nameLength |-> n, experience |-> value,
                level |-> level, rank |-> 0]
          [] kind = "boss" ->
               [activityType |-> t, nameLength |-> n, killCount |-> value,
                rank |-> 0]
          [] kind = "activity" ->
               [activityType |-> t, nameLength |-> n, score |-> value,
                rank |-> 0]
          [] kind = "skillDelta" ->
               [activityType |-> t, nameLength |-> n,
                experienceGain |-> value, levelGain |-> level]
          [] kind = "bossDelta" ->
               [activityType |-> t, nameLength |-> n, killCountGain |-> value]
          [] kind = "activityDelta" ->
               [activityType |-> t, nameLength |-> n, scoreGain |-> value]

\* One record loop: count records read one field at a time from offset.
\* The result is [failed, offset, items]; failed means a read threw.
RECURSIVE ReadRecords(_, _, _, _, _)
ReadRecords(buf, offset, kind, count, items) ==
    IF count = 0 THEN [failed |-> FALSE, offset |-> offset, items |-> items]
    ELSE IF ~InBounds(buf, offset, 1)
         \/ ~InBounds(buf, offset + 1, 4)
         \/ (HasLevel(kind) /\ ~InBounds(buf, offset + 5, 2))
    THEN [failed |-> TRUE, offset |-> offset, items |-> items]
    ELSE ReadRecords(buf, offset + RecordSize(kind), kind, count - 1,
             Append(items,
                 MakeRecord(kind, getUint8(buf, offset),
                            getInt32(buf, offset + 1),
                            IF HasLevel(kind) THEN getInt16(buf, offset + 5)
                            ELSE 0)))

\* A section: the one-byte count, then the record loop.
ReadSection(buf, offset, kind) ==
    IF ~InBounds(buf, offset, 1)
    THEN [failed |-> TRUE, offset |-> offset, items |-> <<>>]
    ELSE ReadRecords(buf, offset + 1, kind, getUint8(buf, offset), <<>>)

\* An optional collection of a delta: x.length > 0 ? x : undefined.
Optional(items) == [present |-> Len(items) > 0, items |-> items]

Thrown(e) ==
    [status |-> "thrown", error |-> e, snapshot |-> <<>>, deltas |-> <<>>]

Returned(snapshot, deltas) ==
    [status |-> "returned", error |-> "none",
     snapshot |-> <<snapshot>>, deltas |-> deltas]

\* The delta loop: remaining deltas are read from offset.  The result is
\* [error, deltas]; error is "none" when every delta was read.
RECURSIVE ReadDeltas(_, _, _, _)
ReadDeltas(buf, offset, remaining, deltas) ==
    IF remaining = 0 THEN [error |-> "none", deltas |-> deltas]
    ELSE IF ~InBounds(buf, offset, 8)
    THEN [error |-> BoundsError, deltas |-> deltas]
    ELSE
      LET deltaTimestamp == getBigInt64(buf, offset)
          sk == ReadSection(buf, offset + 8, "skillDelta")
          bo == ReadSection(buf, sk.offset, "bossDelta")
          ac == ReadSection(buf, bo.offset, "activityDelta")
      IN  IF sk.failed \/ bo.failed \/ ac.failed
          THEN [error |-> BoundsError, deltas |-> deltas]
          ELSE IF ~IsValidTimeValue(deltaTimestamp)
          THEN [error |-> TimeError, deltas |-> deltas]
          ELSE ReadDeltas(buf, ac.offset, remaining - 1,
                   Append(deltas,
                       [timestamp  |-> toISOString(deltaTimestamp),
                        skills     |-> Optional(sk.items),
                        bosses     |-> Optional(bo.items),
                        activities |-> Optional(ac.items)]))

\* Header: the version byte and the flags byte are both read, and only
\* then is the version tested.
decodeHeader(buf) ==
    IF ~InBounds(buf, 0, 1) THEN BoundsError
    ELSE IF ~InBounds(buf, 1, 1) THEN BoundsError
    ELSE IF getUint8(buf, 0) # 1 THEN VersionError
    ELSE "none"

decodeBinaryDeltaResponse(buf) ==
    IF decodeHeader(buf) # "none" THEN Thrown(decodeHeader(buf))
    ELSE IF ~InBounds(buf, 2, 8) THEN Thrown(BoundsError)
    ELSE
      LET snapshotTimestamp == getBigInt64(buf, 2)
          sk == ReadSection(buf, 10, "skill")
          bo == ReadSection(buf, sk.offset, "boss")
          ac == ReadSection(buf, bo.offset, "activity")
      IN  IF sk.failed \/ bo.failed \/ ac.failed THEN Thrown(BoundsError)
          ELSE IF ~IsValidTimeValue(snapshotTimestamp) THEN Thrown(TimeError)
          ELSE IF ~InBounds(buf, ac.offset, 2) THEN Thrown(BoundsError)
          ELSE
            LET ds == ReadDeltas(buf, ac.offset + 2,
                                 getUint16(buf, ac.offset), <<>>)
            IN  IF ds.error # "none" THEN Thrown(ds.error)
                ELSE Returned(
                       [timestamp  |-> toISOString(snapshotTimestamp),
                        skills     |-> sk.items,
                        bosses     |-> bo.items,
                        activities |-> ac.items],
                       ds.deltas)

(***************************************************************************)
(* The decoder's inputs.  The sender is not part of the repository: the    *)
(* buffers are built from the wire format the decoder parses (header,      *)
(* timestamp, three count-prefixed sections, delta block), so that what    *)
(* was encoded is known when the decoder's outcome is judged.              *)
(***************************************************************************)
MaxRecords == 2      \* records per section
MaxDeltas == 2      \* deltas per buffer

\* Time values at the boundaries of the 8-byte field and of the Date range:
\* a typical instant, 0, -1, +-8.64e15, one past each, 2^53+1, 2^63-1, -2^63.
TimeValues == <<
    <<0, 395, 53221, 26624>>, <<0, 0, 0, 0>>, <<-1, 65535, 65535, 65535>>,
    <<30, 45576, 49884, 0>>, <<-31, 19959, 15652, 0>>,
    <<30, 45576, 49884, 1>>, <<-31, 19959, 15651, 65535>>,
    <<32, 0, 0, 1>>, <<32767, 65535, 65535, 65535>>, <<-32768, 0, 0, 0>> >>

\* Record values at the boundaries of the 1-, 4- and 2-byte fields.
RecordValues == <<
    [ord |-> 1,   val |-> 13034431,        lvl |-> 99],
    [ord |-> 0,   val |-> 0,               lvl |-> 0],
    [ord |-> 255, val |-> -1,              lvl |-> -1],
    [ord |-> 113, val |-> 2147483647,      lvl |-> 32767],
    [ord |-> 114, val |-> -2147483647 - 1, lvl |-> -32768],
    [ord |-> 46,  val |-> 256,             lvl |-> 256] >>

TimeValueAt(i) == TimeValues[((i - 1) % Len(TimeValues)) + 1]

RecordValueAt(i) == RecordValues[((i - 1) % Len(RecordValues)) + 1]

\* count records, consecutive ones different, starting at values index i.
WireRecords(i, count) == [j \in 1..count |-> RecordValueAt(i + j)]

\* What a sender encodes: a snapshot with n, m, k records and d deltas.
WireContent(p, n, m, k, d) ==
    [timestamp  |-> TimeValueAt(p),
     skills     |-> WireRecords(p, n),
     bosses     |-> WireRecords(p + 1, m),
     activities |-> WireRecords(p + 2, k),
     deltas     |-> [j \in 1..d |->
                       [timestamp  |-> TimeValueAt(p + j),
                        skills     |-> WireRecords(p + j,
                                          IF j % 2 = 1 THEN m ELSE k),
                        bosses     |-> WireRecords(p + j + 1,
                                          IF j % 2 = 1 THEN k ELSE n),
                        activities |-> WireRecords(p + j + 2,
                                          IF j % 2 = 1 THEN n ELSE m)]]]

Int16Bytes(v) == << (v \div 256) % 256, v % 256 >>

Int32Bytes(v) ==
    << (v \div 16777216) % 256, (v \div 65536) % 256,
       (v \div 256) % 256, v % 256 >>

Int64Bytes(t) ==
    Int16Bytes(t[1]) \o Int16Bytes(t[2]) \o Int16Bytes(t[3]) \o Int16Bytes(t[4])

RECURSIVE EncodeRecords(_, _, _)
EncodeRecords(records, withLevel, i) ==
    IF i > Len(records) THEN <<>>
    ELSE <<records[i].ord>> \o Int32Bytes(records[i].val)
         \o (IF withLevel THEN Int16Bytes(records[i].lvl) ELSE <<>>)
         \o EncodeRecords(records, withLevel, i + 1)

EncodeSection(records, withLevel) ==
    <<Len(records)>> \o EncodeRecords(records, withLevel, 1)

EncodeSections(c) ==
    Int64Bytes(c.timestamp) \o EncodeSection(c.skills, TRUE)
    \o EncodeSection(c.bosses, FALSE) \o EncodeSection(c.activities, FALSE)

RECURSIVE EncodeDeltas(_, _)
EncodeDeltas(deltas, j) ==
    IF j > Len(deltas) THEN <<>>
    ELSE EncodeSections(deltas[j]) \o EncodeDeltas(deltas, j + 1)

\* The whole buffer: version, flags (0), snapshot, delta count, deltas.
Encode(content, version) ==
    <<version, 0>> \o EncodeSections(content)
    \o Int16Bytes(Len(content.deltas)) \o EncodeDeltas(content.deltas, 1)

Versions == {0, 1, 2, 255}

NotDecoded ==
    [status |-> "pending", error |-> "none", snapshot |-> <<>>,
     deltas |-> <<>>]

DecoderIdle ==
    /\ buffer = <<>>
    /\ wire = [content |-> WireContent(1, 0, 0, 0, 0), version |-> 1,
               length |-> 0]
    /\ decoded = NotDecoded

\* Whole buffers of every version, and the same cut after the version byte
\* and after the flags byte.
InitWhole ==
    \E p \in 1..Len(TimeValues), n \in 0..MaxRecords, m \in 0..MaxRecords,
       k \in 0..MaxRecords, d \in 0..MaxDeltas, v \in Versions :
        LET c    == WireContent(p, n, m, k, d)
            full == Encode(c, v)
        IN  \E cut \in {1, 2, Len(full)} :
                /\ buffer = SubSeq(full, 1, cut)
                /\ wire = [content |-> c, version |-> v, length |-> Len(full)]
                /\ decoded = NotDecoded

\* The time values the cut buffers start from: all instants valid, the
\* first delta's invalid, the snapshot's invalid.
TruncatedTimes == {1, 5, 6}

\* Version-1 buffers cut at every length.
InitTruncated ==
    \E p \in TruncatedTimes, n \in 0..MaxRecords, m \in 0..MaxRecords,
       k \in 0..MaxRecords, d \in 0..MaxDeltas :
        LET c    == WireContent(p, n, m, k, d)
            full == Encode(c, 1)
        IN  \E cut \in 0..Len(full) :
                /\ buffer = SubSeq(full, 1, cut)
                /\ wire = [content |-> c, version |-> 1, length |-> Len(full)]
                /\ decoded = NotDecoded

\* Whole version-1 buffers holding one record of one kind, for every
\* ordinal byte.
OneRecord(kind, ordinal) ==
    LET r == <<[ord |-> ordinal, val |-> 7, lvl |-> 3]>>
        s == [timestamp  |-> TimeValueAt(1),
              skills     |-> IF HasLevel(kind) THEN r ELSE <<>>,
              bosses     |-> IF kind \in {"boss", "bossDelta"}
                             THEN r ELSE <<>>,
              activities |-> IF kind \in {"activity", "activityDelta"}
                             THEN r ELSE <<>>]
        e == [timestamp |-> TimeValueAt(1), skills |-> <<>>,
              bosses |-> <<>>, activities |-> <<>>]
    IN  IF kind \in {"skill", "boss", "activity"}
        THEN [timestamp |-> s.timestamp, skills |-> s.skills,
              bosses |-> s.bosses, activities |-> s.activities,
              deltas |-> <<>>]
        ELSE [timestamp |-> e.timestamp, skills |-> <<>>, bosses |-> <<>>,
              activities |-> <<>>, deltas |-> <<s>>]

InitOrdinals ==
    \E kind \in RecordKinds, ordinal \in 0..255 :
        LET c == OneRecord(kind, ordinal)
        IN  /\ buffer = Encode(c, 1)
            /\ wire = [content |-> c, version |-> 1,
                       length |-> Len(Encode(c, 1))]
            /\ decoded = NotDecoded

InitDecoder == InitWhole \/ InitTruncated \/ InitOrdinals

\* One call of decodeBinaryDeltaResponse on the buffer.
Decode ==
    /\ decoded.status = "pending"
    /\ decoded' = decodeBinaryDeltaResponse(buffer)
    /\ UNCHANGED <<buffer, wire>>
    /\ UNCHANGED notDecoder


(***************************************************************************)
(* Claims about the decoder.                                               *)
(***************************************************************************)
WellFormed == wire.version = 1 /\ Len(buffer) = wire.length

\* A version-1 buffer that ends before the bytes its counts announce.
Truncated ==
    /\ Len(buffer) >= 1
    /\ buffer[1] = 1
    /\ Len(buffer) < wire.length

AllTimesValid ==
    /\ IsValidTimeValue(wire.content.timestamp)
    /\ \A j \in 1..Len(wire.content.deltas) :
           IsValidTimeValue(wire.content.deltas[j].timestamp)

\* The decoded collection holds the encoded values, one for one, in order.
SameValues(items, records, valueOf(_), withLevel, levelOf(_)) ==
    /\ Len(items) = Len(records)
    /\ \A i \in 1..Len(records) :
           /\ valueOf(items[i]) = records[i].val
           /\ withLevel => levelOf(items[i]) = records[i].lvl

Experience(r) == r.experience
Level(r) == r.level
KillCount(r) == r.killCount
Score(r) == r.score
ExperienceGain(r) == r.experienceGain
LevelGain(r) == r.levelGain
KillCountGain(r) == r.killCountGain
ScoreGain(r) == r.scoreGain

DecodedExactly ==
    /\ decoded.status = "returned"
    /\ LET s == decoded.snapshot[1]
           c == wire.content
       IN  /\ s.timestamp = c.timestamp
           /\ SameValues(s.skills, c.skills, Experience, TRUE, Level)
           /\ SameValues(s.bosses, c.bosses, KillCount, FALSE, Level)
           /\ SameValues(s.activities, c.activities, Score, FALSE, Level)
           /\ Len(decoded.deltas) = Len(c.deltas)
           /\ \A j \in 1..Len(c.deltas) :
                  LET dd == decoded.deltas[j]
                      cd == c.deltas[j]
                  IN  /\ dd.timestamp = cd.timestamp
                      /\ SameValues(dd.skills.items, cd.skills,
                                    ExperienceGain, TRUE, LevelGain)
                      /\ SameValues(dd.bosses.items, cd.bosses,
                                    KillCountGain, FALSE, LevelGain)
                      /\ SameValues(dd.activities.items, cd.activities,
                                    ScoreGain, FALSE, LevelGain)

\* C1 (as claimed): every well-formed version-1 buffer decodes to a result
\* with exactly the encoded N, M, K records and D deltas in wire order, every
\* experience, level, kill count, score, gain and timestamp equal to the
\* integer that was encoded.
C1_RoundTripExact ==
    (decoded.status # "pending" /\ WellFormed) => DecodedExactly

\* The round trip is exact whenever every encoded timestamp is a time value
\* a Date can hold.
RoundTripExactWithinDateRange ==
    (decoded.status # "pending" /\ WellFormed /\ AllTimesValid)
        => DecodedExactly

\* C2 (as claimed): a leading version byte other than 1 makes the call fail
\* with the protocol-version error and return nothing, whatever bytes follow
\* it, also when none follows.
C2_VersionErrorWhateverFollows ==
    (decoded.status # "pending" /\ Len(buffer) >= 1 /\ buffer[1] # 1)
        => /\ decoded.status = "thrown"
           /\ decoded.error = VersionError
           /\ decoded.snapshot = <<>>
           /\ decoded.deltas = <<>>

\* C3: a truncated version-1 buffer makes the call fail with the bounds
\* error of the reader, a RangeError, which is not the protocol-version
\* Error; no snapshot and no deltas are returned.
C3_TruncatedThrows ==
    (decoded.status # "pending" /\ Truncated)
        => /\ decoded.status = "thrown"
           /\ ErrorClass(decoded.error) = "RangeError"
           /\ decoded.error # VersionError
           /\ decoded.snapshot = <<>>
           /\ decoded.deltas = <<>>

\* A buffer cut inside a record of the second delta was decoded and failed.
C3_Witness ==
    /\ Truncated
    /\ decoded.status = "thrown"
    /\ Len(wire.content.deltas) = 2
    /\ Len(wire.content.deltas[2].skills) >= 1
    /\ Len(buffer) = wire.length - 3

\* The type decoded for a record whose ordinal byte was o.
MapsOrdinal(item, o) ==
    /\ o <= 113 => /\ item.activityType = ACTIVITY_TYPE_INDEX_MAP[o + 1]
                   /\ item.nameLength > 0
    /\ o > 113 => item.activityType = "UNKNOWN"

MapsOrdinals(items, records) ==
    /\ Len(items) = Len(records)
    /\ \A i \in 1..Len(records) : MapsOrdinal(items[i], records[i].ord)

\* C4: every ordinal byte met in any of the six record kinds maps to an
\* activity type without failing: 0..113 to the table entry at that index,
\* whose name is not empty, and every greater ordinal to UNKNOWN.
C4_OrdinalMappingTotal ==
    (decoded.status # "pending" /\ WellFormed /\ AllTimesValid)
        => /\ decoded.status = "returned"
           /\ LET s == decoded.snapshot[1]
                  c == wire.content
              IN  /\ MapsOrdinals(s.skills, c.skills)
                  /\ MapsOrdinals(s.bosses, c.bosses)
                  /\ MapsOrdinals(s.activities, c.activities)
                  /\ Len(decoded.deltas) = Len(c.deltas)
                  /\ \A j \in 1..Len(c.deltas) :
                         /\ MapsOrdinals(decoded.deltas[j].skills.items,
                                         c.deltas[j].skills)
                         /\ MapsOrdinals(decoded.deltas[j].bosses.items,
                                         c.deltas[j].bosses)
                         /\ MapsOrdinals(decoded.deltas[j].activities.items,
                                         c.deltas[j].activities)

\* A boss delta with ordinal byte 200 was decoded to UNKNOWN.
C4_Witness ==
    /\ decoded.status = "returned"
    /\ Len(decoded.deltas) = 1
    /\ decoded.deltas[1].bosses.present
    /\ wire.content.deltas[1].bosses[1].ord = 200
    /\ decoded.deltas[1].bosses.items[1].activityType = "UNKNOWN"
(***************************************************************************)
(* HazelmereApiClient.getSnapshotInterval and its in-flight request map.   *)
(*                                                                         *)
(* A request is the promise of the async block that issues the fetch; its  *)
(* pc is "fetch" while fetch() is awaited, "body" while handleResponse is  *)
(* awaited, and "settled" afterwards.  A call is one invocation of         *)
(* getSnapshotInterval; the promise it returns adopts the request promise  *)
(* and is settled by a later job (Deliver).                                *)
(***************************************************************************)
MaxCalls == 3        \* calls of getSnapshotInterval in one run

InvalidDate == [valid |-> FALSE, ms |-> 0]

DateOf(ms) == [valid |-> TRUE, ms |-> ms]

\* The parameter tuples the callers use: one with the aggregation window
\* absent, the same with the window set, and one whose start time is not a
\* valid Date.
CallParameters ==
    { [userId |-> "u1", startTime |-> DateOf(1000), endTime |-> DateOf(2000),
       aggregationWindow |-> "undefined"],
      [userId |-> "u1", startTime |-> DateOf(1000), endTime |-> DateOf(2000),
       aggregationWindow |-> "daily"],
      [userId |-> "u1", startTime |-> InvalidDate, endTime |-> DateOf(2000),
       aggregationWindow |-> "undefined"] }

\* Date.prototype.toISOString throws a RangeError on an invalid Date.
DatesValid(p) == p.startTime.valid /\ p.endTime.valid

\* getIntervalCacheKey: the four parts joined by '-'.  The ISO strings have a
\* fixed layout and the window holds no '-', so the joined string determines
\* the parts; the key is kept as the tuple of the parts.
getIntervalCacheKey(p) ==
    << p.userId, p.startTime.ms, p.endTime.ms,
       IF p.aggregationWindow = "undefined" THEN "none"
       ELSE p.aggregationWindow >>

\* MapGet gone wrong: the lookup never finds an entry.
MapGetMisses(map, key) == 0

\* Map.get: the request stored under the key, 0 (undefined) when none is.
MapGet(map, key) ==
    IF \E e \in map : e.key = key
    THEN (CHOOSE e \in map : e.key = key).request
    ELSE 0

\* Map.set: at most one entry per key.
MapSet(map, key, request) ==
    {e \in map : e.key # key} \cup {[key |-> key, request |-> request]}

\* MapDelete gone wrong: the entry is left in the map.
MapDeleteSkipped(map, key) == map

\* Map.delete.
MapDelete(map, key) == {e \in map : e.key # key}

Pending == [state |-> "pending", fetch |-> 0, detail |-> "none"]

Fulfilled(fetch, detail) ==
    [state |-> "fulfilled", fetch |-> fetch, detail |-> detail]

Rejected(fetch, detail) ==
    [state |-> "rejected", fetch |-> fetch, detail |-> detail]

\* What response.text() yields: a JSON object with a message ("json
\* message"), another JSON document that is not null, such as an object
\* with snapshots, {} or 0 ("json"), the JSON document null ("json null"),
\* text that is not JSON, the empty string, or a failure of the body stream.
Bodies ==
    {"json message", "json", "json null", "not json", "empty", "unreadable"}

\* handleResponse for the response of fetch number f: what it throws, or
\* the value it returns.
handleResponse(f, ok, body) ==
    IF ~ok
    THEN \* text() failures are caught and read as ''; the message is the
         \* body's message if (errorJson.message), the body text when
         \* reading the message throws (not JSON, or null) and the text is
         \* not empty, and the HTTP status otherwise
         Rejected(f, IF body = "json message"
                     THEN "ApiError: message of the body"
                     ELSE IF body \in {"not json", "json null"}
                     THEN "ApiError: body text"
                     ELSE "ApiError: HTTP status")
    ELSE IF body = "unreadable" THEN Rejected(f, "TypeError: body stream")
    ELSE IF body = "empty" THEN Fulfilled(f, "{}")
    ELSE IF body = "not json"
    THEN Rejected(f, "Error: Invalid JSON response from server")
    ELSE IF body = "json null" THEN Fulfilled(f, "null")
    ELSE Fulfilled(f, "parsed body")

\* The request block after await this.handleResponse(response): a throw is
\* rethrown, data.snapshots of null throws a TypeError, and any other value
\* gives { snapshots: data.snapshots || [], ... }, the snapshots of the
\* response or none ({} of an empty body included).
IntervalResult(f, data) ==
    IF data.state = "rejected" THEN data
    ELSE IF data.detail = "null"
    THEN Rejected(f, "TypeError: Cannot read properties of null")
    ELSE Fulfilled(f, "snapshots of the response")

ApiIdle ==
    /\ inFlightRequests = {}
    /\ requests = <<>>
    /\ calls = <<>>
    /\ fetchLog = <<>>

\* The calls made earlier whose request promise is still unsettled.
UnsettledCalls(key) ==
    {c \in 1..Len(calls) :
        /\ calls[c].key = key
        /\ calls[c].request # 0
        /\ requests[calls[c].request].pc # "settled"}

\* getSnapshotInterval(userId, startTime, endTime, aggregationWindow), up to
\* its return: the key, the lookup, and on a miss the request block run to
\* its first await (the fetch is issued) and stored in the map.
GetSnapshotInterval(p) ==
    /\ Len(calls) < MaxCalls
    /\ IF ~DatesValid(p)
       THEN \* getIntervalCacheKey throws: the returned promise is rejected
            /\ calls' = Append(calls,
                   [params |-> p, key |-> <<>>, request |-> 0,
                    issuedFetch |-> FALSE, joined |-> {},
                    received |-> Rejected(0, TimeError)])
            /\ UNCHANGED <<inFlightRequests, requests, fetchLog>>
       ELSE
         LET cacheKey == getIntervalCacheKey(p)
             inFlight == MapGet(inFlightRequests, cacheKey)
             fresh    == Len(requests) + 1
         IN  IF inFlight # 0
             THEN /\ calls' = Append(calls,
                        [params |-> p, key |-> cacheKey, request |-> inFlight,
                         issuedFetch |-> FALSE,
                         joined |-> UnsettledCalls(cacheKey),
                         received |-> Pending])
                  /\ UNCHANGED <<inFlightRequests, requests, fetchLog>>
             ELSE /\ requests' = Append(requests,
                        [key |-> cacheKey, pc |-> "fetch", ok |-> FALSE,
                         outcome |-> Pending, deletions |-> 0])
                  /\ fetchLog' = Append(fetchLog, cacheKey)
                  /\ inFlightRequests' =
                         MapSet(inFlightRequests, cacheKey, fresh)
                  /\ calls' = Append(calls,
                        [params |-> p, key |-> cacheKey, request |-> fresh,
                         issuedFetch |-> TRUE,
                         joined |-> UnsettledCalls(cacheKey),
                         received |-> Pending])

\* The request block's catch and finally: the entry of the key is deleted
\* and the request promise settles with the outcome.
Settle(r, outcome) ==
    /\ requests' = [requests EXCEPT ![r].pc = "settled",
                                    ![r].outcome = outcome,
                                    ![r].deletions = @ + 1]
    /\ inFlightRequests' = MapDelete(inFlightRequests, requests[r].key)
    /\ UNCHANGED <<calls, fetchLog>>

\* fetch() rejects (the network failed): catch, rethrow, finally.
FetchRejects(r) ==
    /\ requests[r].pc = "fetch"
    /\ Settle(r, Rejected(r, "TypeError: Failed to fetch"))

\* fetch() resolves with a response; handleResponse starts reading its body.
FetchResponds(r, ok) ==
    /\ requests[r].pc = "fetch"
    /\ requests' = [requests EXCEPT ![r].pc = "body", ![r].ok = ok]
    /\ UNCHANGED <<inFlightRequests, calls, fetchLog>>

\* response.text() settles; handleResponse returns or throws; the block
\* returns the result or rethrows; finally.
BodyArrives(r, body) ==
    /\ requests[r].pc = "body"
    /\ Settle(r, IntervalResult(r, handleResponse(r, requests[r].ok, body)))

\* The promise a call returned takes the outcome of the request promise.
\* The reactions of one promise run in the order they were registered.
Deliver(c) ==
    /\ calls[c].received = Pending
    /\ \A b \in 1..(c - 1) :
           calls[b].request = calls[c].request => calls[b].received # Pending
    /\ calls[c].request # 0
    /\ requests[calls[c].request].pc = "settled"
    /\ calls' = [calls EXCEPT ![c].received =
                                  requests[calls[c].request].outcome]
    /\ UNCHANGED <<inFlightRequests, requests, fetchLog>>

ApiCall ==
    /\ \E p \in CallParameters : GetSnapshotInterval(p)
    /\ UNCHANGED notApi

ApiFetchRejects ==
    /\ \E r \in 1..Len(requests) : FetchRejects(r)
    /\ UNCHANGED notApi

ApiFetchResponds ==
    /\ \E r \in 1..Len(requests), ok \in BOOLEAN : FetchResponds(r, ok)
    /\ UNCHANGED notApi

ApiBodyArrives ==
    /\ \E r \in 1..Len(requests), body \in Bodies : BodyArrives(r, body)
    /\ UNCHANGED notApi

ApiDeliver ==
    /\ \E c \in 1..Len(calls) : Deliver(c)
    /\ UNCHANGED notApi
(***************************************************************************)
(* Claims about getSnapshotInterval.                                       *)
(***************************************************************************)
\* The calls that share the request promise of call c.
Callers(r) == {c \in 1..Len(calls) : calls[c].request = r}

\* The entries of the in-flight map that hold request r.
EntriesOf(r) == {e \in inFlightRequests : e.request = r}

\* C5: a call of getSnapshotInterval made while an earlier call with the same
\* parameters has a request that is not yet settled issues no fetch of its
\* own and takes that request as its own, so that the calls of one such
\* group stand behind exactly one fetch and receive one and the same outcome
\* (the response of that fetch, or its error).
C5_ConcurrentCallsShareOneFetch ==
    \A c \in 1..Len(calls) :
        /\ \A b \in calls[c].joined :
              /\ calls[c].key = calls[b].key
              /\ calls[c].request = calls[b].request
              /\ ~calls[c].issuedFetch
              /\ (calls[c].received # Pending /\ calls[b].received # Pending)
                    => calls[c].received = calls[b].received
        /\ calls[c].request # 0 =>
              /\ Cardinality({b \in Callers(calls[c].request) :
                                 calls[b].issuedFetch}) = 1
              /\ calls[c].received \in
                    {Pending, requests[calls[c].request].outcome}

\* Three calls with the same parameters, the later two made while the request
\* of the first was unsettled, have all received the outcome of one fetch.
C5_Witness ==
    \E c \in 1..Len(calls) :
        /\ Cardinality(calls[c].joined) = 2
        /\ calls[c].received # Pending
        /\ \A b \in calls[c].joined : calls[b].received = calls[c].received
        /\ Len(fetchLog) = 1

\* C6: the in-flight map holds exactly the requests that are not yet settled,
\* each under its own key; the removal of a request's entry has run once when
\* the request has settled, whatever its outcome, and not before; and a call
\* made when no earlier request of its parameters is unsettled issues a fetch
\* of its own and receives nothing but the outcome of that fetch.
C6_MapHoldsOnlyUnsettledRequests ==
    /\ \A e \in inFlightRequests :
          /\ e.request \in 1..Len(requests)
          /\ requests[e.request].key = e.key
          /\ requests[e.request].pc # "settled"
    /\ \A r \in 1..Len(requests) :
          IF requests[r].pc = "settled"
          THEN requests[r].deletions = 1 /\ EntriesOf(r) = {}
          ELSE requests[r].deletions = 0 /\ Cardinality(EntriesOf(r)) = 1
    /\ \A c \in 1..Len(calls) :
          (calls[c].request # 0 /\ calls[c].joined = {}) =>
              /\ calls[c].issuedFetch
              /\ \A b \in 1..(c - 1) : calls[b].request # calls[c].request
              /\ calls[c].received \in
                    {Pending, requests[calls[c].request].outcome}
              /\ calls[c].received # Pending =>
                    calls[c].received.fetch = calls[c].request

\* A request failed and one succeeded under the same key, both entries are
\* gone, and the later call has received the outcome of its own fetch.
C6_Witness ==
    \E b, c \in 1..Len(calls) :
        /\ b < c
        /\ calls[b].key = calls[c].key
        /\ calls[b].request # 0
        /\ calls[b].request # calls[c].request
        /\ calls[b].received.state = "rejected"
        /\ calls[c].received.state = "fulfilled"
        /\ inFlightRequests = {}
(***************************************************************************)
(* Drag-to-select on the line chart (WebGLLineChart) and on the bar chart  *)
(* (WebGLBarChart).                                                        *)
(*                                                                         *)
(* One chart is mounted at a time.  A handler runs on the state of the     *)
(* last render.  Positions are canvas coordinates (clientX - rect.left) in *)
(* whole pixels; timestamps are milliseconds.                              *)
(***************************************************************************)
Null == -1           \* null of the number | null states; no position is -1

MinSelectionSpan == 10

Abs(v) == IF v < 0 THEN -v ELSE v

Min(a, b) == IF a < b THEN a ELSE b

Max(a, b) == IF a > b THEN a ELSE b

\* margins of the line chart, and of the bar chart (narrower below 500 px).
margins(chart, width) ==
    IF chart = "bar" /\ width < 500
    THEN [left |-> 45, right |-> 10]
    ELSE [left |-> 70, right |-> 30]

\* const chartWidth = width - margins.left - margins.right
chartWidth(p) ==
    p.width - margins(p.chart, p.width).left - margins(p.chart, p.width).right

marginLeft(p) == margins(p.chart, p.width).left

\* timeRange: the first and the last timestamp of the data.
timeRange(p) == [min |-> p.data[1], max |-> p.data[Len(p.data)]]

\* timeRange.min + norm * (timeRange.max - timeRange.min) for norm =
\* relX / chartWidth, handed to new Date(), which drops the fraction.
TimeAt(p, relX) ==
    timeRange(p).min
        + (relX * (timeRange(p).max - timeRange(p).min)) \div chartWidth(p)

\* The loop of handleCanvasMouseMove: the index of the point closest to the
\* hovered timestamp, the first of them on a tie.  Distances are compared
\* after multiplication by chartWidth.
Distance(p, i, relX) ==
    Abs(p.data[i] * chartWidth(p)
          - (timeRange(p).min * chartWidth(p)
               + relX * (timeRange(p).max - timeRange(p).min)))

ClosestIndex(p, relX) ==
    CHOOSE i \in 1..Len(p.data) :
        \A j \in 1..Len(p.data) :
            \/ Distance(p, i, relX) < Distance(p, j, relX)
            \/ Distance(p, i, relX) = Distance(p, j, relX) /\ i <= j

InPlot(p, x) == x - marginLeft(p) >= 0 /\ x - marginLeft(p) <= chartWidth(p)

\* ExceedsMinimumSpan off by one: a span of exactly 10 pixels selects.
ExceedsMinimumSpanInclusive(a, b) == Abs(b - a) >= MinSelectionSpan

\* if (Math.abs(endRelX - startRelX) > 10)
ExceedsMinimumSpan(a, b) == Abs(b - a) > MinSelectionSpan

LineIdle == [isDragging |-> FALSE, dragStartX |-> Null, dragEndX |-> Null,
             hoveredPoint |-> Null]

BarIdle == [isRangeSelecting |-> FALSE, rangeStartX |-> Null,
            rangeEndX |-> Null, hoveredBar |-> Null]

(* ------------------------- the line chart ------------------------------ *)
\* handleMouseDown
handleMouseDown(p, s, x) ==
    IF ~p.onTimeRangeSelect THEN s
    ELSE IF InPlot(p, x)
    THEN [s EXCEPT !.isDragging = TRUE, !.dragStartX = x, !.dragEndX = x]
    ELSE s

\* handleCanvasMouseMove of the line chart (hoverLineX is the x of the
\* hovered point and is set and cleared with hoveredPoint).
handleCanvasMouseMove(p, s, x) ==
    LET moved == IF s.isDragging THEN [s EXCEPT !.dragEndX = x] ELSE s
    IN  IF InPlot(p, x)
        THEN IF ~s.isDragging
             THEN [moved EXCEPT
                     !.hoveredPoint = ClosestIndex(p, x - marginLeft(p))]
             ELSE moved
        ELSE IF ~s.isDragging
             THEN [moved EXCEPT !.hoveredPoint = Null]
             ELSE moved

\* handleCanvasMouseLeave of the line chart
handleCanvasMouseLeave(s) ==
    IF s.isDragging
    THEN [s EXCEPT !.hoveredPoint = Null, !.isDragging = FALSE,
                   !.dragStartX = Null, !.dragEndX = Null]
    ELSE [s EXCEPT !.hoveredPoint = Null]

\* handleMouseUp: the state it leaves and the calls of onTimeRangeSelect
handleMouseUp(p, s) ==
    LET reset == [s EXCEPT !.isDragging = FALSE, !.dragStartX = Null,
                           !.dragEndX = Null]
    IN  IF ~s.isDragging \/ s.dragStartX = Null \/ s.dragEndX = Null
           \/ ~p.onTimeRangeSelect
        THEN [state |-> reset, calls |-> <<>>]
        ELSE
          LET startRelX ==
                  Max(0, Min(s.dragStartX - marginLeft(p), chartWidth(p)))
              endRelX ==
                  Max(0, Min(s.dragEndX - marginLeft(p), chartWidth(p)))
          IN  [state |-> reset,
               calls |->
                 IF ExceedsMinimumSpan(startRelX, endRelX)
                 THEN << [start |-> TimeAt(p, Min(startRelX, endRelX)),
                          end   |-> TimeAt(p, Max(startRelX, endRelX))] >>
                 ELSE <<>>]

\* handleGlobalMouseUp, the window's mouseup listener
handleGlobalMouseUp(p, s) ==
    IF s.isDragging THEN handleMouseUp(p, s)
    ELSE [state |-> s, calls |-> <<>>]

(* -------------------------- the bar chart ------------------------------ *)
\* xToTimestamp
xToTimestamp(p, x) ==
    TimeAt(p, Max(0, Min(chartWidth(p), x - marginLeft(p))))

\* handleRangeMouseDown
handleRangeMouseDown(p, s, x) ==
    IF ~p.onTimeRangeSelect THEN s
    ELSE IF x >= marginLeft(p) /\ x <= marginLeft(p) + chartWidth(p)
    THEN [s EXCEPT !.isRangeSelecting = TRUE, !.rangeStartX = x,
                   !.rangeEndX = x]
    ELSE s

\* handleRangeMouseMove, a mousemove listener of the document
handleRangeMouseMove(p, s, clientX) ==
    IF ~s.isRangeSelecting \/ s.rangeStartX = Null THEN s
    ELSE [s EXCEPT !.rangeEndX =
             Max(marginLeft(p),
                 Min(marginLeft(p) + chartWidth(p), clientX))]

\* handleRangeMouseUp, a mouseup listener of the document
handleRangeMouseUp(p, s) ==
    LET reset == [s EXCEPT !.isRangeSelecting = FALSE, !.rangeStartX = Null,
                           !.rangeEndX = Null]
    IN  IF ~s.isRangeSelecting \/ s.rangeStartX = Null
           \/ s.rangeEndX = Null \/ ~p.onTimeRangeSelect
        THEN [state |-> reset, calls |-> <<>>]
        ELSE [state |-> reset,
              calls |->
                IF ExceedsMinimumSpan(s.rangeStartX, s.rangeEndX)
                THEN << [start |-> xToTimestamp(p,
                                      Min(s.rangeStartX, s.rangeEndX)),
                         end   |-> xToTimestamp(p,
                                      Max(s.rangeStartX, s.rangeEndX))] >>
                ELSE <<>>]

\* handleCanvasMouseMove of the bar chart
handleCanvasMouseMoveBar(p, s, x) ==
    IF InPlot(p, x)
    THEN [s EXCEPT !.hoveredBar = ClosestIndex(p, x - marginLeft(p))]
    ELSE [s EXCEPT !.hoveredBar = Null]

\* handleCanvasMouseLeave of the bar chart
handleCanvasMouseLeaveBar(s) == [s EXCEPT !.hoveredBar = Null]

(* --------------------------- the pointer ------------------------------- *)
\* Chart widths whose plot area is 512 or 256 pixels wide, so that the
\* division by chartWidth is exact in floating point as it is here.
Mounts ==
    { [chart |-> "line", width |-> 612], [chart |-> "bar", width |-> 612],
      [chart |-> "bar", width |-> 311] }

\* Chart data: points in ascending order of timestamp, never empty (the
\* parents render no chart for an empty series).
DataSets == { <<4096>>, <<1000, 3000, 9192>> }

Props ==
    { [chart |-> m.chart, width |-> m.width, data |-> d,
       onTimeRangeSelect |-> f] :
         m \in Mounts, d \in DataSets, f \in BOOLEAN }

\* Pointer positions relative to the left edge of the plot area: beyond the
\* canvas on either side, in either margin, and in the plot area at its
\* edges and at 10, 11 and 200 pixels.
PlotOffsets(p) ==
    { 0 - marginLeft(p) - 20, -2, 0, 10, 11, 200, chartWidth(p),
      chartWidth(p) + 2, p.width - marginLeft(p) + 20 }

Positions(p) == { marginLeft(p) + o : o \in PlotOffsets(p) }

OnCanvas(p, x) == x >= 0 /\ x <= p.width

NoRelease ==
    [happened |-> FALSE, dragging |-> FALSE, afterLeave |-> FALSE,
     span |-> 0, stillDragging |-> FALSE]

ChartIdle ==
    /\ chartProps = [chart |-> "none", width |-> 0, data |-> <<>>,
                     onTimeRangeSelect |-> FALSE]
    /\ lineChart = LineIdle
    /\ barChart = BarIdle
    /\ mouse = [x |-> 0, onCanvas |-> FALSE, button |-> "up",
                leftWhileDragging |-> FALSE]
    /\ release = NoRelease
    /\ selected = <<>>

InitChart ==
    /\ chartProps \in Props
    /\ lineChart = LineIdle
    /\ barChart = BarIdle
    /\ \E x \in Positions(chartProps) :
          mouse = [x |-> x, onCanvas |-> OnCanvas(chartProps, x),
                   button |-> "up", leftWhileDragging |-> FALSE]
    /\ release = NoRelease
    /\ selected = <<>>

\* The span of the selection a release finds: the distance between the start
\* and the end of the drag within the plot area.
DragSpan ==
    IF chartProps.chart = "line"
    THEN IF lineChart.isDragging
         THEN Abs(Max(0, Min(lineChart.dragEndX - marginLeft(chartProps),
                             chartWidth(chartProps)))
                  - Max(0, Min(lineChart.dragStartX - marginLeft(chartProps),
                               chartWidth(chartProps))))
         ELSE 0
    ELSE IF barChart.isRangeSelecting
         THEN Abs(barChart.rangeEndX - barChart.rangeStartX)
         ELSE 0

Dragging ==
    IF chartProps.chart = "line" THEN lineChart.isDragging
    ELSE barChart.isRangeSelecting

Released(after) ==
    [happened |-> TRUE, dragging |-> Dragging,
     afterLeave |-> mouse.leftWhileDragging, span |-> DragSpan,
     stillDragging |-> after]

(* ---------------------------- the events ------------------------------- *)
\* mousedown on the line chart's canvas
LineMouseDown ==
    /\ chartProps.chart = "line"
    /\ mouse.button = "up" /\ mouse.onCanvas
    /\ lineChart' = handleMouseDown(chartProps, lineChart, mouse.x)
    /\ mouse' = [mouse EXCEPT !.button = "down",
                              !.leftWhileDragging = FALSE]
    /\ release' = NoRelease
    /\ selected' = <<>>
    /\ UNCHANGED <<chartProps, barChart>>
    /\ UNCHANGED notChart

\* mousemove on the line chart's canvas (the pointer moves within it or
\* comes back onto it)
LineMouseMove ==
    /\ chartProps.chart = "line"
    /\ \E x \in Positions(chartProps) :
          /\ OnCanvas(chartProps, x)
          /\ x # mouse.x \/ ~mouse.onCanvas
          /\ lineChart' = handleCanvasMouseMove(chartProps, lineChart, x)
          /\ mouse' = [mouse EXCEPT !.x = x, !.onCanvas = TRUE]
    /\ UNCHANGED <<chartProps, barChart, release, selected>>
    /\ UNCHANGED notChart

\* mouseleave: the pointer moves off the line chart's canvas
LineMouseLeave ==
    /\ chartProps.chart = "line"
    /\ mouse.onCanvas
    /\ \E x \in Positions(chartProps) :
          /\ ~OnCanvas(chartProps, x)
          /\ mouse' = [mouse EXCEPT
                         !.x = x, !.onCanvas = FALSE,
                         !.leftWhileDragging = @ \/ lineChart.isDragging]
    /\ lineChart' = handleCanvasMouseLeave(lineChart)
    /\ UNCHANGED <<chartProps, barChart, release, selected>>
    /\ UNCHANGED notChart

\* mouseup anywhere in the window, the line chart mounted
LineMouseUp ==
    /\ chartProps.chart = "line"
    /\ mouse.button = "down"
    /\ LET done == handleGlobalMouseUp(chartProps, lineChart)
       IN  /\ lineChart' = done.state
           /\ selected' = selected \o done.calls
           /\ release' = Released(done.state.isDragging)
    /\ mouse' = [mouse EXCEPT !.button = "up", !.leftWhileDragging = FALSE]
    /\ UNCHANGED <<chartProps, barChart>>
    /\ UNCHANGED notChart

\* mousedown on the bar chart's canvas
BarMouseDown ==
    /\ chartProps.chart = "bar"
    /\ mouse.button = "up" /\ mouse.onCanvas
    /\ barChart' = handleRangeMouseDown(chartProps, barChart, mouse.x)
    /\ mouse' = [mouse EXCEPT !.button = "down",
                              !.leftWhileDragging = FALSE]
    /\ release' = NoRelease
    /\ selected' = <<>>
    /\ UNCHANGED <<chartProps, lineChart>>
    /\ UNCHANGED notChart

\* mousemove with the bar chart mounted: the document's listener runs
\* wherever the pointer is, the canvas's handler when it is on the canvas
BarMouseMove ==
    /\ chartProps.chart = "bar"
    /\ \E x \in Positions(chartProps) :
          /\ x # mouse.x
          /\ OnCanvas(chartProps, x) \/ ~mouse.onCanvas
          /\ barChart' =
                LET ranged == handleRangeMouseMove(chartProps, barChart, x)
                IN  IF OnCanvas(chartProps, x)
                    THEN handleCanvasMouseMoveBar(chartProps, ranged, x)
                    ELSE ranged
          /\ mouse' = [mouse EXCEPT !.x = x,
                                    !.onCanvas = OnCanvas(chartProps, x)]
    /\ UNCHANGED <<chartProps, lineChart, release, selected>>
    /\ UNCHANGED notChart

\* The pointer moves off the bar chart's canvas: mouseleave on the canvas
\* and mousemove on the document
BarMouseLeave ==
    /\ chartProps.chart = "bar"
    /\ mouse.onCanvas
    /\ \E x \in Positions(chartProps) :
          /\ ~OnCanvas(chartProps, x)
          /\ barChart' = handleRangeMouseMove(chartProps,
                             handleCanvasMouseLeaveBar(barChart), x)
          /\ mouse' = [mouse EXCEPT
                         !.x = x, !.onCanvas = FALSE,
                         !.leftWhileDragging =
                             @ \/ barChart.isRangeSelecting]
    /\ UNCHANGED <<chartProps, lineChart, release, selected>>
    /\ UNCHANGED notChart

\* mouseup anywhere in the document, the bar chart mounted
BarMouseUp ==
    /\ chartProps.chart = "bar"
    /\ mouse.button = "down"
    /\ LET done == handleRangeMouseUp(chartProps, barChart)
       IN  /\ barChart' = done.state
           /\ selected' = selected \o done.calls
           /\ release' = Released(done.state.isRangeSelecting)
    /\ mouse' = [mouse EXCEPT !.button = "up", !.leftWhileDragging = FALSE]
    /\ UNCHANGED <<chartProps, lineChart>>
    /\ UNCHANGED notChart
(***************************************************************************)
(* Claims about drag-to-select.                                            *)
(***************************************************************************)
\* C7: a release of the button that finds the line or the bar chart in the
\* dragging-select state calls onTimeRangeSelect exactly once, with a start
\* not after the end, when the span of the selection exceeds 10 pixels, and
\* does not call it when the span is 10 pixels or less; either way the chart
\* is out of the dragging-select state after the release.
C7_ReleaseSelectsAboveTenPixels ==
    (release.happened /\ release.dragging) =>
        /\ Len(selected) = IF release.span > 10 THEN 1 ELSE 0
        /\ \A i \in 1..Len(selected) : selected[i].start <= selected[i].end
        /\ ~release.stillDragging
        /\ ~Dragging

\* A drag of exactly 11 pixels was released and selected a range of time.
C7_Witness ==
    /\ release.happened /\ release.dragging
    /\ release.span = 11
    /\ Len(selected) = 1
    /\ selected[1].start < selected[1].end
    /\ ~Dragging

\* A drag of exactly 10 pixels was released and selected nothing.
ReleaseAtTenPixelsReached ==
    /\ release.happened /\ release.dragging
    /\ release.span = 10
    /\ selected = <<>>

LeaveAbortsDrag ==
    /\ mouse.leftWhileDragging => ~Dragging
    /\ (release.happened /\ release.afterLeave) => selected = <<>>

\* C8: once the pointer has left the canvas during a drag-to-select, the
\* chart, line or bar, is out of the dragging-select state, and the release
\* of the button that follows calls onTimeRangeSelect not at all.
C8_LeaveAbortsDragInBothCharts == LeaveAbortsDrag

\* The line chart alone aborts the drag when the pointer leaves its canvas.
LeaveAbortsDragOnLineChart == chartProps.chart = "line" => LeaveAbortsDrag

\* The bar chart has called onTimeRangeSelect for a drag the pointer left
\* the canvas in.
BarSelectsAfterLeave ==
    /\ chartProps.chart = "bar"
    /\ release.happened /\ release.afterLeave
    /\ Len(selected) = 1
(***************************************************************************)
(* The chart-data transformers: generateChartData of TimeRangeSelector.tsx *)
(* (snapshot mode) and generateChartDataFromDeltas of GainsChart.tsx       *)
(* (delta mode).                                                           *)
(*                                                                         *)
(* A timestamp is the number new Date(timestamp).getTime() gives; the      *)
(* date label of a point (toLocaleDateString) depends on the locale and is *)
(* left out.  An activity selection of null or undefined is "unset".       *)
(***************************************************************************)
BOSS_ACTIVITY_TYPES == {
    "ABYSSAL_SIRE", "ALCHEMICAL_HYDRA", "AMOXLIATL", "ARAXXOR", "ARTIO",
    "BARROWS_CHESTS", "BRYOPHYTA", "CALLISTO", "CALVARION", "CERBERUS",
    "CHAMBERS_OF_XERIC", "CHAMBERS_OF_XERIC_CHALLENGE_MODE",
    "CHAOS_ELEMENTAL", "CHAOS_FANATIC", "COMMANDER_ZILYANA",
    "CORPOREAL_BEAST", "CRAZY_ARCHAEOLOGIST", "DAGANNOTH_PRIME",
    "DAGANNOTH_REX", "DAGANNOTH_SUPREME", "DERANGED_ARCHAEOLOGIST",
    "DOOM_OF_MOKHAIOTL", "DUKE_SUCELLUS", "GENERAL_GRAARDOR",
    "GIANT_MOLE", "GROTESQUE_GUARDIANS", "HESPORI", "KALPHITE_QUEEN",
    "KING_BLACK_DRAGON", "KRAKEN", "KREEARRA", "KRIL_TSUTSAROTH",
    "LUNAR_CHESTS", "MIMIC", "NEX", "NIGHTMARE", "PHOSANIS_NIGHTMARE",
    "OBOR", "PHANTOM_MUSPAH", "SARACHNIS", "SCORPIA", "SCURRIUS",
    "SHELLBANE_GRYPHON", "SKOTIZO", "SOL_HEREDIT", "SPINDEL",
    "TEMPOROSS", "THE_GAUNTLET", "THE_CORRUPTED_GAUNTLET",
    "THE_HUEYCOATL", "THE_LEVIATHAN", "THE_ROYAL_TITANS",
    "THE_WHISPERER", "THEATRE_OF_BLOOD", "THEATRE_OF_BLOOD_HARD_MODE",
    "THERMONUCLEAR_SMOKE_DEVIL", "TOMBS_OF_AMASCUT",
    "TOMBS_OF_AMASCUT_EXPERT_MODE", "TZKALZUK", "TZTOKJAD", "VARDORVIS",
    "VENENATIS", "VETION", "VORKATH", "WINTERTODT", "YAMA", "ZALCANO",
    "ZULRAH" }

ACTIVITY_ACTIVITY_TYPES == {
    "GRID_POINTS", "LEAGUE_POINTS", "DEADMAN_POINTS",
    "BOUNTY_HUNTER__HUNTER", "BOUNTY_HUNTER__ROGUE",
    "BOUNTY_HUNTER_LEGACY__HUNTER", "BOUNTY_HUNTER_LEGACY__ROGUE",
    "CLUE_SCROLLS_ALL", "CLUE_SCROLLS_BEGINNER", "CLUE_SCROLLS_EASY",
    "CLUE_SCROLLS_MEDIUM", "CLUE_SCROLLS_HARD", "CLUE_SCROLLS_ELITE",
    "CLUE_SCROLLS_MASTER", "LMS__RANK", "PVP_ARENA__RANK",
    "SOUL_WARS_ZEAL", "RIFTS_CLOSED", "COLOSSEUM_GLORY",
    "COLLECTIONS_LOGGED" }

\* The score-based activity types the two generators list inline.
ScoreActivityTypes == {
    "LEAGUE_POINTS", "DEADMAN_POINTS", "BOUNTY_HUNTER__HUNTER",
    "BOUNTY_HUNTER__ROGUE", "BOUNTY_HUNTER_LEGACY__HUNTER",
    "BOUNTY_HUNTER_LEGACY__ROGUE", "CLUE_SCROLLS_ALL",
    "CLUE_SCROLLS_BEGINNER", "CLUE_SCROLLS_EASY", "CLUE_SCROLLS_MEDIUM",
    "CLUE_SCROLLS_HARD", "CLUE_SCROLLS_ELITE", "CLUE_SCROLLS_MASTER",
    "LMS__RANK", "PVP_ARENA__RANK", "SOUL_WARS_ZEAL", "RIFTS_CLOSED",
    "COLOSSEUM_GLORY", "COLLECTIONS_LOGGED" }

OutlierThreshold == 10000000

Unset == "unset"

Undefined == [present |-> FALSE, items |-> <<>>]

\* Array.prototype.find: the first item of the activity type, <<>> if none.
Find(items, activityType) ==
    IF \E i \in 1..Len(items) : items[i].activityType = activityType
    THEN << items[CHOOSE i \in 1..Len(items) :
                    /\ items[i].activityType = activityType
                    /\ \A j \in 1..(i - 1) :
                          items[j].activityType # activityType] >>
    ELSE <<>>

\* The value and the level of an entry found among skills, bosses and
\* activities ('experience' in activity, 'killCount' in activity, ...).
EntryData(entry) ==
    IF "experience" \in DOMAIN entry
    THEN [value |-> entry.experience, level |-> entry.level]
    ELSE IF "killCount" \in DOMAIN entry
    THEN [value |-> entry.killCount, level |-> Null]
    ELSE IF "score" \in DOMAIN entry
    THEN [value |-> entry.score, level |-> Null]
    ELSE [value |-> 0, level |-> Null]

RECURSIVE SumExperience(_, _)
\* reduce((sum, skill) => sum + skill.experience, 0) over the skills other
\* than OVERALL, from index i on.
SumExperience(skills, i) ==
    IF i > Len(skills) THEN 0
    ELSE (IF skills[i].activityType # "OVERALL" THEN skills[i].experience
          ELSE 0) + SumExperience(skills, i + 1)

\* extractActivityData of TimeRangeSelector.tsx (snapshot mode)
extractActivityDataOfSnapshots(snapshot, activityType) ==
    IF activityType = Unset
    THEN [value |-> SumExperience(snapshot.skills, 1), level |-> Null]
    ELSE LET found == Find(snapshot.skills \o snapshot.bosses
                              \o snapshot.activities, activityType)
         IN  IF found = <<>> THEN [value |-> 0, level |-> Null]
             ELSE EntryData(found[1])

\* extractActivityData of GainsChart.tsx (delta mode)
extractActivityData(snapshot, activityType) ==
    IF activityType = Unset
    THEN LET overall == Find(snapshot.skills, "OVERALL")
         IN  [value |-> IF overall = <<>> THEN 0 ELSE overall[1].experience,
              level |-> Null]
    ELSE LET found == Find(snapshot.skills \o snapshot.bosses
                              \o snapshot.activities, activityType)
         IN  IF found = <<>> THEN [value |-> 0, level |-> Null]
             ELSE EntryData(found[1])

\* getDeltaGainForActivity without the lookups among bosses and activities
SkillGainOnly(delta, activityType) ==
    LET skill == Find(delta.skills.items,
                      IF activityType = Unset THEN "OVERALL"
                      ELSE activityType)
    IN  IF skill = <<>> THEN 0 ELSE skill[1].experienceGain

\* getDeltaGainForActivity
getDeltaGainForActivity(delta, activityType) ==
    IF activityType = Unset
    THEN LET overall == Find(delta.skills.items, "OVERALL")
         IN  IF overall = <<>> THEN 0 ELSE overall[1].experienceGain
    ELSE LET skill    == Find(delta.skills.items, activityType)
             boss     == Find(delta.bosses.items, activityType)
             activity == Find(delta.activities.items, activityType)
         IN  IF skill # <<>> THEN skill[1].experienceGain
             ELSE IF boss # <<>> THEN boss[1].killCountGain
             ELSE IF activity # <<>> THEN activity[1].scoreGain
             ELSE 0

\* ExceedsOutlierThreshold off by one: 10,000,000 itself is suppressed.
ExceedsOutlierThresholdInclusive(dailyGain) == dailyGain >= OutlierThreshold

\* dailyGain > 10_000_000
ExceedsOutlierThreshold(dailyGain) == dailyGain > OutlierThreshold

\* The display filter both generators apply to the gain of an interval.
DisplayDailyGain(activityType, dailyGain) ==
    IF dailyGain > 0
    THEN LET isBossActivity ==
                 activityType # Unset /\ activityType \in BOSS_ACTIVITY_TYPES
             isScoreActivity ==
                 activityType # Unset /\ activityType \in ScoreActivityTypes
             isExperience ==
                 activityType = Unset
                     \/ (~isBossActivity /\ ~isScoreActivity)
             minimumGain == IF isBossActivity THEN 1 ELSE 100
         IN  IF isExperience /\ ExceedsOutlierThreshold(dailyGain) THEN 0
             ELSE IF dailyGain >= minimumGain THEN dailyGain ELSE 0
    ELSE 0

RECURSIVE InsertByExperience(_, _)
\* One step of the stable sort (a, b) => b.experience - a.experience.
InsertByExperience(sorted, item) ==
    IF sorted = <<>> THEN <<item>>
    ELSE IF sorted[Len(sorted)].experience >= item.experience
    THEN Append(sorted, item)
    ELSE Append(InsertByExperience(SubSeq(sorted, 1, Len(sorted) - 1), item),
                sorted[Len(sorted)])

RECURSIVE SortByExperience(_, _)
SortByExperience(items, n) ==
    IF n = 0 THEN <<>>
    ELSE InsertByExperience(SortByExperience(items, n - 1), items[n])

\* The sort without the slice: every skill gain is kept.
SortedWithoutCut(skillGains) ==
    SortByExperience(skillGains, Len(skillGains))

\* .sort((a, b) => b.experience - a.experience).slice(0, 5)
TopFive(skillGains) ==
    LET sorted == SortByExperience(skillGains, Len(skillGains))
    IN  SubSeq(sorted, 1, Min(5, Len(sorted)))

RECURSIVE InsertByTimestamp(_, _)
\* One step of the stable sort by ascending timestamp.
InsertByTimestamp(sorted, item) ==
    IF sorted = <<>> THEN <<item>>
    ELSE IF sorted[Len(sorted)].timestamp <= item.timestamp
    THEN Append(sorted, item)
    ELSE Append(InsertByTimestamp(SubSeq(sorted, 1, Len(sorted) - 1), item),
                sorted[Len(sorted)])

RECURSIVE SortByTimestamp(_, _)
\* [...items].sort((a, b) => time of a - time of b)
SortByTimestamp(items, n) ==
    IF n = 0 THEN <<>>
    ELSE InsertByTimestamp(SortByTimestamp(items, n - 1), items[n])

RECURSIVE SkillGainsBetween(_, _, _)
\* The forEach over snapshot.skills of generateChartData: the gains of the
\* skills other than OVERALL that the previous snapshot also holds, those
\* above 0 and at most 10,000,000, from index i on.
SkillGainsBetween(previousSnapshot, snapshot, i) ==
    IF i > Len(snapshot.skills) THEN <<>>
    ELSE LET currSkill == snapshot.skills[i]
             prevSkill == Find(previousSnapshot.skills, currSkill.activityType)
             rest == SkillGainsBetween(previousSnapshot, snapshot, i + 1)
         IN  IF currSkill.activityType = "OVERALL" \/ prevSkill = <<>>
             THEN rest
             ELSE LET skillGain ==
                          currSkill.experience - prevSkill[1].experience
                  IN  IF skillGain > 0 /\ skillGain <= OutlierThreshold
                      THEN << [skill |-> currSkill.name,
                               experience |-> skillGain] >> \o rest
                      ELSE rest

\* The arrays of one call of a generator: the caller's array, which the
\* call is handed by reference, and the arrays the call allocates, the
\* sorted one and the points.  Every call starts with new ones.
CallArrays(array) == [input |-> array, sorted |-> <<>>, data |-> <<>>]

\* array.sort(compare) on the caller's array: sort orders the array it is
\* called on and returns it, so the sorted array is the caller's.
SortInPlace(arrays) ==
    LET ordered == SortByTimestamp(arrays.input, Len(arrays.input))
    IN  [arrays EXCEPT !.input = ordered, !.sorted = ordered]

\* [...array].sort(compare): the spread allocates an array of the same
\* items, and sort orders that one; nothing is written to the caller's.
SortOfCopy(arrays) ==
    [arrays EXCEPT !.sorted = SortByTimestamp(arrays.input, Len(arrays.input))]

\* The point generateChartData pushes for the snapshot at index i.
SnapshotPoint(sorted, activityType, i) ==
    LET data == extractActivityDataOfSnapshots(sorted[i], activityType)
        previousValue ==
            IF i = 1 THEN 0
            ELSE extractActivityDataOfSnapshots(sorted[i - 1],
                                                activityType).value
        dailyGain == IF i = 1 THEN 0 ELSE data.value - previousValue
    IN  [timestamp |-> sorted[i].timestamp,
         cumulativeValue |-> data.value,
         dailyGain |-> DisplayDailyGain(activityType, dailyGain),
         level |-> data.level,
         skillBreakdown |->
            IF activityType \in {Unset, "OVERALL"} /\ i > 1 /\ dailyGain > 0
            THEN [present |-> TRUE,
                  items |-> TopFive(SkillGainsBetween(sorted[i - 1],
                                                      sorted[i], 1))]
            ELSE Undefined]

\* A call of generateChartData(snapshots, activityType): the arrays as the
\* call leaves them, data the array it returns
generateChartDataCall(snapshotArray, activityType) ==
    LET arrays == SortOfCopy(CallArrays(snapshotArray))
    IN  [arrays EXCEPT !.data =
            [i \in 1..Len(arrays.sorted) |->
                SnapshotPoint(arrays.sorted, activityType, i)]]

\* generateChartData(snapshots, activityType)
generateChartData(input, activityType) ==
    generateChartDataCall(input, activityType).data

RECURSIVE DeltaSkillGains(_, _)
\* delta.skills.filter(...).map(...): the gains of the delta's skills other
\* than OVERALL, those above 0 and at most 10,000,000, from index i on.
DeltaSkillGains(skills, i) ==
    IF i > Len(skills) THEN <<>>
    ELSE LET s == skills[i]
             rest == DeltaSkillGains(skills, i + 1)
         IN  IF s.activityType # "OVERALL" /\ s.experienceGain > 0
                /\ s.experienceGain <= OutlierThreshold
             THEN << [skill |-> s.name, experience |-> s.experienceGain] >>
                      \o rest
             ELSE rest

RECURSIVE CumulativeValue(_, _, _, _)
\* cumulativeValue after the first k of the sorted deltas.
CumulativeValue(startingValue, sortedDeltas, activityType, k) ==
    IF k = 0 THEN startingValue
    ELSE CumulativeValue(startingValue, sortedDeltas, activityType, k - 1)
           + getDeltaGainForActivity(sortedDeltas[k], activityType)

\* The point generateChartDataFromDeltas pushes for the k-th sorted delta.
DeltaPoint(startingValue, sortedDeltas, activityType, k) ==
    LET delta == sortedDeltas[k]
        dailyGain == getDeltaGainForActivity(delta, activityType)
        skillGains == TopFive(DeltaSkillGains(delta.skills.items, 1))
    IN  [timestamp |-> delta.timestamp,
         cumulativeValue |->
            CumulativeValue(startingValue, sortedDeltas, activityType, k),
         dailyGain |-> DisplayDailyGain(activityType, dailyGain),
         level |-> Null,
         skillBreakdown |->
            IF activityType \in {Unset, "OVERALL"} /\ delta.skills.present
               /\ dailyGain > 0 /\ Len(skillGains) > 0
            THEN [present |-> TRUE, items |-> skillGains]
            ELSE Undefined]

\* A call of generateChartDataFromDeltas(deltaResponse, activityType): the
\* arrays as the call leaves them, input the deltas array of the response,
\* data the array it returns
generateChartDataFromDeltasCall(response, activityType) ==
    LET starting == extractActivityData(response.snapshot, activityType)
        arrays == SortOfCopy(CallArrays(response.deltas))
        first == [timestamp |-> response.snapshot.timestamp,
                  cumulativeValue |-> starting.value,
                  dailyGain |-> 0,
                  level |-> starting.level,
                  skillBreakdown |-> Undefined]
    IN  [arrays EXCEPT !.data =
            <<first>> \o
            [k \in 1..Len(arrays.sorted) |->
                DeltaPoint(starting.value, arrays.sorted, activityType, k)]]

\* generateChartDataFromDeltas(deltaResponse, activityType)
generateChartDataFromDeltas(response, activityType) ==
    generateChartDataFromDeltasCall(response, activityType).data

(* ----------------------------- the inputs ------------------------------ *)
MaxIntervals == 2    \* snapshots after the first, and deltas, in one input

SkillEntry(activityType, name, level, experience) ==
    [activityType |-> activityType, name |-> name, level |-> level,
     experience |-> experience, rank |-> 0]

BossEntry(activityType, name, killCount) ==
    [activityType |-> activityType, name |-> name, killCount |-> killCount,
     rank |-> 0]

ActivityEntry(activityType, name, score) ==
    [activityType |-> activityType, name |-> name, score |-> score,
     rank |-> 0]

\* The first snapshot: one whose OVERALL entry is the sum of its skills, and
\* one whose OVERALL entry is not (the snapshot lists only some skills).
BaseSnapshots ==
    { [overall |-> 1500, attack |-> 1000, attackLevel |-> 9,
       defence |-> 500, zulrah |-> 10, clue |-> 5],
      [overall |-> 1000, attack |-> 600, attackLevel |-> 7,
       defence |-> 300, zulrah |-> 0, clue |-> 0] }

\* What an interval adds to each entry: gains below and at the minimum gain,
\* at, just above and far above 10,000,000, none, a loss, a total above
\* 10,000,000 made of smaller skill gains, an OVERALL gain that is not the
\* sum of the skill gains, and a kill count and a score gain above
\* 10,000,000.
IntervalGains ==
    { [overall |-> 50, attack |-> 50, attackLevel |-> 0, defence |-> 0,
       zulrah |-> 0, clue |-> 0],
      [overall |-> 300, attack |-> 100, attackLevel |-> 1, defence |-> 200,
       zulrah |-> 1, clue |-> 150],
      [overall |-> 10000000, attack |-> 10000000, attackLevel |-> 20,
       defence |-> 0, zulrah |-> 0, clue |-> 99],
      [overall |-> 10000001, attack |-> 10000001, attackLevel |-> 20,
       defence |-> 0, zulrah |-> 0, clue |-> 0],
      [overall |-> 15000500, attack |-> 15000000, attackLevel |-> 30,
       defence |-> 500, zulrah |-> 3, clue |-> 0],
      [overall |-> 0, attack |-> 0, attackLevel |-> 0, defence |-> 0,
       zulrah |-> 0, clue |-> 0],
      [overall |-> -20, attack |-> -20, attackLevel |-> 0, defence |-> 0,
       zulrah |-> 0, clue |-> 0],
      [overall |-> 11000000, attack |-> 5000000, attackLevel |-> 10,
       defence |-> 6000000, zulrah |-> 0, clue |-> 0],
      [overall |-> 0, attack |-> 400, attackLevel |-> 0, defence |-> 0,
       zulrah |-> 2, clue |-> 0],
      [overall |-> 700, attack |-> 700, attackLevel |-> 0, defence |-> 0,
       zulrah |-> 10000001, clue |-> 12000000] }

Selections ==
    {Unset, "OVERALL", "ATTACK", "DEFENCE", "ZULRAH", "CLUE_SCROLLS_ALL"}

RECURSIVE TotalsAfter(_, _, _)
\* The entries' values after the first i intervals.
TotalsAfter(base, gains, i) ==
    IF i = 0 THEN base
    ELSE LET before == TotalsAfter(base, gains, i - 1)
         IN  [overall |-> before.overall + gains[i].overall,
              attack |-> before.attack + gains[i].attack,
              attackLevel |-> before.attackLevel + gains[i].attackLevel,
              defence |-> before.defence + gains[i].defence,
              zulrah |-> before.zulrah + gains[i].zulrah,
              clue |-> before.clue + gains[i].clue]

TimestampOf(i) == 86400 * (i + 1)

\* A snapshot whose boss entry and activity entry are of the given types.
SnapshotWith(totals, i, bossType, scoreType) ==
    [timestamp |-> TimestampOf(i),
     skills |-> << SkillEntry("OVERALL", "Overall", 20, totals.overall),
                   SkillEntry("ATTACK", "Attack", totals.attackLevel,
                              totals.attack),
                   SkillEntry("DEFENCE", "Defence", 5, totals.defence) >>,
     bosses |-> << BossEntry(bossType, bossType, totals.zulrah) >>,
     activities |-> << ActivityEntry(scoreType, scoreType, totals.clue) >>]

SnapshotOf(totals, i) ==
    SnapshotWith(totals, i, "ZULRAH", "CLUE_SCROLLS_ALL")

\* The entries that changed, in order.
SelectChanged(items) == SelectSeq(items, LAMBDA e : e.changed)

\* The delta of an interval: the entries that changed, a collection with no
\* changed entry absent.
DeltaWith(g, i, bossType, scoreType) ==
    LET skills == SelectChanged(<<
            [activityType |-> "OVERALL", name |-> "Overall",
             experienceGain |-> g.overall, levelGain |-> 0,
             changed |-> g.overall # 0],
            [activityType |-> "ATTACK", name |-> "Attack",
             experienceGain |-> g.attack, levelGain |-> g.attackLevel,
             changed |-> g.attack # 0 \/ g.attackLevel # 0],
            [activityType |-> "DEFENCE", name |-> "Defence",
             experienceGain |-> g.defence, levelGain |-> 0,
             changed |-> g.defence # 0] >>)
        bosses == SelectChanged(<<
            [activityType |-> bossType, name |-> bossType,
             killCountGain |-> g.zulrah, changed |-> g.zulrah # 0] >>)
        activities == SelectChanged(<<
            [activityType |-> scoreType, name |-> scoreType,
             scoreGain |-> g.clue,
             changed |-> g.clue # 0] >>)
    IN  [timestamp |-> TimestampOf(i),
         skills |-> Optional(skills),
         bosses |-> Optional(bosses),
         activities |-> Optional(activities)]

DeltaOf(g, i) == DeltaWith(g, i, "ZULRAH", "CLUE_SCROLLS_ALL")

NotGenerated == [done |-> FALSE, points |-> <<>>]

TransformerIdle ==
    /\ snapshots = <<>>
    /\ deltaResponse = <<>>
    /\ selectedActivity = Unset
    /\ intervals = [base |-> <<>>, gains |-> <<>>]
    /\ chartData = [snapshotMode |-> NotGenerated, deltaMode |-> NotGenerated]
    /\ chartDataAgain =
           [snapshotMode |-> NotGenerated, deltaMode |-> NotGenerated]
    /\ givenInput = [snapshots |-> <<>>, deltaResponse |-> <<>>]

Reverse(items) == [i \in 1..Len(items) |-> items[Len(items) + 1 - i]]

\* The order in which the server lists the items: oldest or newest first.
Arrange(items, newestFirst) == IF newestFirst THEN Reverse(items) ELSE items

\* No generator has run on the input yet.
NothingGenerated ==
    /\ chartData = [snapshotMode |-> NotGenerated, deltaMode |-> NotGenerated]
    /\ chartDataAgain =
           [snapshotMode |-> NotGenerated, deltaMode |-> NotGenerated]
    /\ givenInput = [snapshots |-> snapshots, deltaResponse |-> deltaResponse]

\* A snapshot sequence, oldest or newest first, the first snapshot with the
\* deltas of the consecutive differences, and an activity selection.
InitTransformer ==
    /\ \E base \in BaseSnapshots, n \in 0..MaxIntervals, newestFirst \in BOOLEAN :
          \E gains \in [1..n -> IntervalGains] :
              /\ intervals = [base |-> base, gains |-> gains]
              /\ snapshots =
                    Arrange([i \in 1..(n + 1) |->
                                SnapshotOf(TotalsAfter(base, gains, i - 1),
                                           i - 1)], newestFirst)
              /\ deltaResponse =
                    [snapshot |-> SnapshotOf(base, 0),
                     deltas |-> Arrange([i \in 1..n |-> DeltaOf(gains[i], i)],
                                        newestFirst)]
    /\ selectedActivity \in Selections
    /\ NothingGenerated

\* One interval, and a boss or an activity selected, for every boss type and
\* every activity type: the snapshot's boss (activity) entry is of that type.
InitTransformerTypes ==
    /\ \E base \in BaseSnapshots, g \in IntervalGains,
          t \in BOSS_ACTIVITY_TYPES \cup ACTIVITY_ACTIVITY_TYPES :
          LET bossType ==
                  IF t \in BOSS_ACTIVITY_TYPES THEN t ELSE "ZULRAH"
              scoreType ==
                  IF t \in ACTIVITY_ACTIVITY_TYPES THEN t
                  ELSE "CLUE_SCROLLS_ALL"
          IN  /\ intervals = [base |-> base, gains |-> <<g>>]
              /\ snapshots =
                    << SnapshotWith(base, 0, bossType, scoreType),
                       SnapshotWith(TotalsAfter(base, <<g>>, 1), 1,
                                    bossType, scoreType) >>
              /\ deltaResponse =
                    [snapshot |-> SnapshotWith(base, 0, bossType, scoreType),
                     deltas |-> << DeltaWith(g, 1, bossType, scoreType) >>]
              /\ selectedActivity = t
    /\ NothingGenerated

\* The memo of the snapshot-mode chart: generateChartData is called with
\* the snapshot array, returns its points and leaves the array as its
\* writes left it.
GenerateChartData ==
    /\ ~chartData.snapshotMode.done
    /\ LET call == generateChartDataCall(snapshots, selectedActivity)
       IN  /\ chartData' = [chartData EXCEPT !.snapshotMode =
                               [done |-> TRUE, points |-> call.data]]
           /\ snapshots' = call.input
    /\ UNCHANGED <<deltaResponse, selectedActivity, intervals, chartDataAgain,
                   givenInput>>
    /\ UNCHANGED notTransformer

\* The memo of the delta-mode chart: generateChartDataFromDeltas
GenerateChartDataFromDeltas ==
    /\ ~chartData.deltaMode.done
    /\ LET call == generateChartDataFromDeltasCall(deltaResponse,
                                                   selectedActivity)
       IN  /\ chartData' = [chartData EXCEPT !.deltaMode =
                               [done |-> TRUE, points |-> call.data]]
           /\ deltaResponse' = [deltaResponse EXCEPT !.deltas = call.input]
    /\ UNCHANGED <<snapshots, selectedActivity, intervals, chartDataAgain,
                   givenInput>>
    /\ UNCHANGED notTransformer

\* The snapshot-mode generator called again, with the array the first call
\* left and the same selection
GenerateChartDataAgain ==
    /\ chartData.snapshotMode.done
    /\ ~chartDataAgain.snapshotMode.done
    /\ LET call == generateChartDataCall(snapshots, selectedActivity)
       IN  /\ chartDataAgain' = [chartDataAgain EXCEPT !.snapshotMode =
                                    [done |-> TRUE, points |-> call.data]]
           /\ snapshots' = call.input
    /\ UNCHANGED <<deltaResponse, selectedActivity, intervals, chartData,
                   givenInput>>
    /\ UNCHANGED notTransformer

\* The delta-mode generator called again, with the response the first call
\* left and the same selection
GenerateChartDataFromDeltasAgain ==
    /\ chartData.deltaMode.done
    /\ ~chartDataAgain.deltaMode.done
    /\ LET call == generateChartDataFromDeltasCall(deltaResponse,
                                                   selectedActivity)
       IN  /\ chartDataAgain' = [chartDataAgain EXCEPT !.deltaMode =
                                    [done |-> TRUE, points |-> call.data]]
           /\ deltaResponse' = [deltaResponse EXCEPT !.deltas = call.input]
    /\ UNCHANGED <<snapshots, selectedActivity, intervals, chartData,
                   givenInput>>
    /\ UNCHANGED notTransformer
(***************************************************************************)
(* Claims about the chart-data transformers.                               *)
(***************************************************************************)
BothGenerated == chartData.snapshotMode.done /\ chartData.deltaMode.done

\* The cumulative value, the displayed gain and the breakdown a tooltip
\* shows (an empty and an absent breakdown show alike: no breakdown).
SamePoint(a, b) ==
    /\ a.cumulativeValue = b.cumulativeValue
    /\ a.dailyGain = b.dailyGain
    /\ a.skillBreakdown.items = b.skillBreakdown.items

ModesAgree ==
    LET s == chartData.snapshotMode.points
        d == chartData.deltaMode.points
    IN  /\ Len(s) = Len(d)
        /\ \A i \in 1..Len(s) : SamePoint(s[i], d[i])

\* C9: for a chronologically sorted snapshot sequence and the deltas of its
\* consecutive differences, generateChartData and generateChartDataFromDeltas
\* return as many points, and at every point the same cumulative value, the
\* same displayed gain and the same skill breakdown, for every activity
\* selection, the unset one included.
C9_ModesAgreeForEverySelection == BothGenerated => ModesAgree

\* The OVERALL entry of every snapshot is the sum of its other skills.
OverallIsTheSum ==
    /\ intervals.base.overall = intervals.base.attack + intervals.base.defence
    /\ \A i \in 1..Len(intervals.gains) :
          intervals.gains[i].overall =
              intervals.gains[i].attack + intervals.gains[i].defence

\* The two modes agree on every selection other than the unset one.
ModesAgreeOnNamedSelections ==
    (BothGenerated /\ selectedActivity # Unset) => ModesAgree

\* The two modes agree on the unset selection where OVERALL is the sum.
ModesAgreeWhereOverallIsTheSum ==
    (BothGenerated /\ OverallIsTheSum) => ModesAgree

\* The two modes differ in where a breakdown is an empty list and where it
\* is absent.
BreakdownPresenceAgrees ==
    BothGenerated =>
        \A i \in 1..Min(Len(chartData.snapshotMode.points),
                        Len(chartData.deltaMode.points)) :
            chartData.snapshotMode.points[i].skillBreakdown.present
                = chartData.deltaMode.points[i].skillBreakdown.present

ExperienceSelections == {Unset, "OVERALL", "ATTACK", "DEFENCE"}

\* The gain of interval i in the selected activity, as the input was built:
\* total XP is the sum of the skills in snapshot mode and the OVERALL entry
\* in delta mode.
IntervalGain(mode, i) ==
    LET g == intervals.gains[i]
    IN  CASE selectedActivity = "OVERALL" -> g.overall
          [] selectedActivity = "ATTACK" -> g.attack
          [] selectedActivity = "DEFENCE" -> g.defence
          [] selectedActivity = "ZULRAH" -> g.zulrah
          [] selectedActivity = "CLUE_SCROLLS_ALL" -> g.clue
          [] OTHER -> IF mode = "snapshot" THEN g.attack + g.defence
                      ELSE g.overall

OutliersSuppressed(mode, points) ==
    \A i \in 1..Len(intervals.gains) :
        /\ IntervalGain(mode, i) > 10000000 =>
              /\ points[i + 1].dailyGain = 0
              /\ points[i + 1].cumulativeValue =
                    points[i].cumulativeValue + IntervalGain(mode, i)
        /\ IntervalGain(mode, i) = 10000000 =>
              points[i + 1].dailyGain = 10000000

\* C10: for a skill or total XP selection, in either generator, the point of
\* an interval whose gain exceeds 10,000,000 has displayed gain 0 and a
\* cumulative value that is the previous point's plus the full gain; the
\* point of an interval whose gain is exactly 10,000,000 displays it.
C10_OutlierGainHiddenButCounted ==
    selectedActivity \in ExperienceSelections =>
        /\ chartData.snapshotMode.done =>
              OutliersSuppressed("snapshot", chartData.snapshotMode.points)
        /\ chartData.deltaMode.done =>
              OutliersSuppressed("delta", chartData.deltaMode.points)

\* Both generators have handled an ATTACK gain of exactly 10,000,000 and one
\* of 15,000,000.
C10_Witness ==
    /\ BothGenerated
    /\ selectedActivity = "ATTACK"
    /\ Len(intervals.gains) = 2
    /\ intervals.gains[1].attack = 10000000
    /\ intervals.gains[2].attack = 15000000
    /\ chartData.deltaMode.points[2].dailyGain = 10000000
    /\ chartData.deltaMode.points[3].dailyGain = 0
    /\ chartData.snapshotMode.points[3].dailyGain = 0
    /\ chartData.snapshotMode.points[3].cumulativeValue
          = intervals.base.attack + 25000000

\* The gain of interval i in the selected boss or activity, as the input was
\* built.
KillCountOrScoreGain(i) ==
    IF selectedActivity \in BOSS_ACTIVITY_TYPES THEN intervals.gains[i].zulrah
    ELSE intervals.gains[i].clue

LargeGainsShown(points) ==
    \A i \in 1..Len(intervals.gains) :
        KillCountOrScoreGain(i) > 10000000 =>
            points[i + 1].dailyGain = KillCountOrScoreGain(i)

LargeGainsShownByBothModes ==
    /\ chartData.snapshotMode.done =>
          LargeGainsShown(chartData.snapshotMode.points)
    /\ chartData.deltaMode.done =>
          LargeGainsShown(chartData.deltaMode.points)

\* C11: when the selection is a member of BOSS_ACTIVITY_TYPES or of
\* ACTIVITY_ACTIVITY_TYPES, either generator displays the gain of an interval
\* that exceeds 10,000,000 as it is.
C11_LargeBossAndScoreGainsShown ==
    selectedActivity \in BOSS_ACTIVITY_TYPES \cup ACTIVITY_ACTIVITY_TYPES =>
        LargeGainsShownByBothModes

\* The same for the bosses and for the activity types the generators list
\* inline, that is for every activity type but GRID_POINTS.
LargeGainsShownForListedTypes ==
    selectedActivity \in BOSS_ACTIVITY_TYPES \cup ScoreActivityTypes =>
        LargeGainsShownByBothModes

\* A GRID_POINTS gain of 12,000,000 is displayed as 0 by both generators.
GridPointsGainHidden ==
    /\ BothGenerated
    /\ selectedActivity = "GRID_POINTS"
    /\ Len(intervals.gains) = 1
    /\ intervals.gains[1].clue = 12000000
    /\ chartData.snapshotMode.points[2].dailyGain = 0
    /\ chartData.deltaMode.points[2].dailyGain = 0
    /\ chartData.deltaMode.points[2].cumulativeValue
          = intervals.base.clue + 12000000

\* After every call the caller's snapshot array and delta response are as
\* they were handed over, items and order: no call has written to them.
InputAsHandedOver ==
    /\ snapshots = givenInput.snapshots
    /\ deltaResponse = givenInput.deltaResponse

\* The second call of a generator, made on the arrays the first call left,
\* returned the points the first call returned.
SecondCallReturnsTheSame ==
    /\ chartDataAgain.snapshotMode.done =>
           chartDataAgain.snapshotMode.points = chartData.snapshotMode.points
    /\ chartDataAgain.deltaMode.done =>
           chartDataAgain.deltaMode.points = chartData.deltaMode.points

SelectedField(record) ==
    CASE selectedActivity \in {Unset, "OVERALL"} -> record.overall
      [] selectedActivity = "ATTACK" -> record.attack
      [] selectedActivity = "DEFENCE" -> record.defence
      [] selectedActivity \in BOSS_ACTIVITY_TYPES -> record.zulrah
      [] OTHER -> record.clue

DeltaPoints == chartData.deltaMode.points

\* One point for the base snapshot and one per delta.
OnePointPerDeltaAndTheBase ==
    Len(DeltaPoints) = Len(deltaResponse.deltas) + 1

\* The first point is the base snapshot's, with its value and no gain.
FirstPointIsTheBase ==
    /\ DeltaPoints[1].timestamp = deltaResponse.snapshot.timestamp
    /\ DeltaPoints[1].cumulativeValue = SelectedField(intervals.base)
    /\ DeltaPoints[1].dailyGain = 0

\* The points of the deltas are in ascending order of timestamp and every
\* delta has its point.
DeltaPointsInTimeOrder ==
    /\ \A i \in 2..(Len(DeltaPoints) - 1) :
          DeltaPoints[i].timestamp < DeltaPoints[i + 1].timestamp
    /\ { DeltaPoints[i].timestamp : i \in 2..Len(DeltaPoints) }
          = { deltaResponse.deltas[i].timestamp :
                 i \in 1..Len(deltaResponse.deltas) }

\* Every cumulative value is the one before plus the whole gain of the
\* interval, displayed or not.
CumulativeAddsTheUnfilteredGain ==
    \A i \in 1..Len(intervals.gains) :
        DeltaPoints[i + 1].cumulativeValue
            = DeltaPoints[i].cumulativeValue
                + SelectedField(intervals.gains[i])

\* C27: generateChartDataFromDeltas with a base snapshot and D deltas emits
\* exactly D+1 points: first the base snapshot's value with displayed gain
\* 0, then one point per delta in ascending order of the deltas'
\* timestamps, each cumulative value the previous point's plus the delta's
\* unfiltered gain for the selected activity (0 when the delta has no entry
\* for it).
C27_BasePointThenOnePointPerDelta ==
    chartData.deltaMode.done =>
        /\ OnePointPerDeltaAndTheBase
        /\ FirstPointIsTheBase
        /\ DeltaPointsInTimeOrder
        /\ CumulativeAddsTheUnfilteredGain

\* Two deltas listed newest first, a boss selected, the first interval with
\* no entry for it and the second with a kill count gain above 10,000,000:
\* three points in time order, the last one 10,000,001 above the base.
C27_Witness ==
    /\ chartData.deltaMode.done
    /\ selectedActivity = "ZULRAH"
    /\ Len(deltaResponse.deltas) = 2
    /\ deltaResponse.deltas[1].timestamp > deltaResponse.deltas[2].timestamp
    /\ intervals.gains[1].zulrah = 0
    /\ ~deltaResponse.deltas[2].bosses.present
    /\ intervals.gains[2].zulrah = 10000001
    /\ Len(DeltaPoints) = 3
    /\ DeltaPoints[2].cumulativeValue = intervals.base.zulrah
    /\ DeltaPoints[3].cumulativeValue = intervals.base.zulrah + 10000001

\* A hidden gain is still counted: experience above 10,000,000.
HiddenGainStillCounted ==
    /\ chartData.deltaMode.done
    /\ selectedActivity = Unset
    /\ Len(DeltaPoints) = 2
    /\ DeltaPoints[2].dailyGain = 0
    /\ DeltaPoints[2].cumulativeValue = DeltaPoints[1].cumulativeValue + 11000000
(***************************************************************************)
(* The skill breakdown of a chart point: one interval in which six skills  *)
(* gain experience, given to generateChartData as two snapshots and to     *)
(* generateChartDataFromDeltas as a base snapshot and one delta.           *)
(***************************************************************************)
BreakdownSkills ==
    << "ATTACK", "DEFENCE", "STRENGTH", "HITPOINTS", "RANGED", "PRAYER" >>

\* What a skill gains in the interval: nothing, 100, 200, exactly
\* 10,000,000 and 10,000,001
BreakdownGainValues == { 0, 100, 200, 10000000, 10000001 }

BreakdownSelections == { Unset, "OVERALL", "ATTACK" }

RECURSIVE GainedTogether(_, _)
\* The experience the skills gain together, from index i on
GainedTogether(gains, i) ==
    IF i > Len(gains) THEN 0 ELSE gains[i] + GainedTogether(gains, i + 1)

\* A snapshot after the skills gained what is given: every skill from 1000,
\* the OVERALL entry the sum of the skills.
BreakdownSnapshot(gains, i) ==
    [timestamp |-> TimestampOf(i),
     skills |->
        << SkillEntry("OVERALL", "Overall", 20,
                      1000 * Len(BreakdownSkills) + GainedTogether(gains, 1)) >>
        \o [k \in 1..Len(BreakdownSkills) |->
               SkillEntry(BreakdownSkills[k], BreakdownSkills[k], 5,
                          1000 + gains[k])],
     bosses |-> <<>>,
     activities |-> <<>>]

NoGains == [k \in 1..Len(BreakdownSkills) |-> 0]

\* The delta of the interval: the entries that changed
BreakdownDelta(gains) ==
    [timestamp |-> TimestampOf(1),
     skills |-> Optional(SelectChanged(
        << [activityType |-> "OVERALL", name |-> "Overall",
            experienceGain |-> GainedTogether(gains, 1), levelGain |-> 0,
            changed |-> GainedTogether(gains, 1) # 0] >>
        \o [k \in 1..Len(BreakdownSkills) |->
               [activityType |-> BreakdownSkills[k],
                name |-> BreakdownSkills[k],
                experienceGain |-> gains[k], levelGain |-> 0,
                changed |-> gains[k] # 0]])),
     bosses |-> Optional(<<>>),
     activities |-> Optional(<<>>)]

NoBreakdownPoints ==
    [snapshotMode |-> NotGenerated, deltaMode |-> NotGenerated]

BreakdownIdle ==
    /\ breakdownGains = NoGains
    /\ breakdownSelection = Unset
    /\ breakdownPoints = NoBreakdownPoints

InitBreakdown ==
    /\ breakdownGains \in [1..Len(BreakdownSkills) -> BreakdownGainValues]
    /\ breakdownSelection \in BreakdownSelections
    /\ breakdownPoints = NoBreakdownPoints

\* generateChartData on the two snapshots around the interval
BreakdownOfSnapshots ==
    /\ ~breakdownPoints.snapshotMode.done
    /\ breakdownPoints' = [breakdownPoints EXCEPT !.snapshotMode =
          [done |-> TRUE,
           points |-> generateChartData(
                         << BreakdownSnapshot(NoGains, 0),
                            BreakdownSnapshot(breakdownGains, 1) >>,
                         breakdownSelection)]]
    /\ UNCHANGED <<breakdownGains, breakdownSelection>>
    /\ UNCHANGED notBreakdown

\* generateChartDataFromDeltas on the base snapshot and the interval's delta
BreakdownOfDeltas ==
    /\ ~breakdownPoints.deltaMode.done
    /\ breakdownPoints' = [breakdownPoints EXCEPT !.deltaMode =
          [done |-> TRUE,
           points |-> generateChartDataFromDeltas(
                         [snapshot |-> BreakdownSnapshot(NoGains, 0),
                          deltas |-> << BreakdownDelta(breakdownGains) >>],
                         breakdownSelection)]]
    /\ UNCHANGED <<breakdownGains, breakdownSelection>>
    /\ UNCHANGED notBreakdown
(***************************************************************************)
(* Claims about the skill breakdown.                                       *)
(***************************************************************************)
\* The skills an item list names
SkillsIn(items) == { items[i].skill : i \in 1..Len(items) }

\* The skills of the interval that the list leaves out
LeftOut(items) ==
    { k \in 1..Len(BreakdownSkills) : BreakdownSkills[k] \notin SkillsIn(items) }

\* The skills whose gain the breakdown admits: above 0 and at most 10,000,000
Admitted(k) == breakdownGains[k] > 0 /\ breakdownGains[k] <= 10000000

\* Only for total XP, at most five entries, none for OVERALL, every gain
\* above 0 and at most 10,000,000 and the gain of its skill, in
\* non-increasing order.
WellFormedBreakdown(point) ==
    point.skillBreakdown.present =>
        LET items == point.skillBreakdown.items
        IN  /\ breakdownSelection \in {Unset, "OVERALL"}
            /\ Len(items) <= 5
            /\ \A i \in 1..Len(items) :
                  /\ items[i].skill # "Overall"
                  /\ items[i].experience > 0
                  /\ items[i].experience <= 10000000
                  /\ \E k \in 1..Len(BreakdownSkills) :
                        /\ items[i].skill = BreakdownSkills[k]
                        /\ items[i].experience = breakdownGains[k]
            /\ \A i \in 2..Len(items) :
                  items[i - 1].experience >= items[i].experience

\* No skill gain left out is larger than one that is in the breakdown.
NoLargerGainLeftOut(point) ==
    point.skillBreakdown.present =>
        \A k \in LeftOut(point.skillBreakdown.items) :
            \A i \in 1..Len(point.skillBreakdown.items) :
                breakdownGains[k] <= point.skillBreakdown.items[i].experience

\* No admitted skill gain left out is larger than one that is in the
\* breakdown, and none is left out while the breakdown has room.
NoLargerAdmittedGainLeftOut(point) ==
    point.skillBreakdown.present =>
        \A k \in LeftOut(point.skillBreakdown.items) :
            Admitted(k) =>
                /\ Len(point.skillBreakdown.items) = 5
                /\ \A i \in 1..Len(point.skillBreakdown.items) :
                      breakdownGains[k]
                         <= point.skillBreakdown.items[i].experience

\* The points either generator has made
BreakdownPointsMade ==
    { breakdownPoints.snapshotMode.points[i] :
         i \in 1..Len(breakdownPoints.snapshotMode.points) }
    \cup { breakdownPoints.deltaMode.points[i] :
              i \in 1..Len(breakdownPoints.deltaMode.points) }

\* C30, as stated: a chart point carries a skill breakdown only when the
\* activity selection is unset or OVERALL; the breakdown then has at most 5
\* entries, none of them for OVERALL, each with a gain greater than 0 and
\* at most 10,000,000, ordered by non-increasing gain, and no skill gain of
\* that interval left out of it is larger than one that is in it.
C30_BreakdownIsTheTopFive ==
    \A point \in BreakdownPointsMade :
        WellFormedBreakdown(point) /\ NoLargerGainLeftOut(point)

\* C30, as the code has it: the same, with the last part for the skill
\* gains greater than 0 and at most 10,000,000 only: a gain above
\* 10,000,000 is left out however large.
C30_BreakdownIsTheTopFiveAdmitted ==
    \A point \in BreakdownPointsMade :
        WellFormedBreakdown(point) /\ NoLargerAdmittedGainLeftOut(point)

\* Six skills gained, all admitted, the smallest gain of 100 by one skill
\* only: both generators list the five others and leave that one out.
C30_Witness ==
    /\ breakdownPoints.snapshotMode.done
    /\ breakdownPoints.deltaMode.done
    /\ breakdownSelection = Unset
    /\ \A k \in 1..Len(BreakdownSkills) : Admitted(k)
    /\ breakdownGains[3] = 100
    /\ \A k \in 1..Len(BreakdownSkills) : k # 3 => breakdownGains[k] > 100
    /\ \A mode \in {"snapshotMode", "deltaMode"} :
          /\ breakdownPoints[mode].points[2].skillBreakdown.present
          /\ Len(breakdownPoints[mode].points[2].skillBreakdown.items) = 5
          /\ LeftOut(breakdownPoints[mode].points[2].skillBreakdown.items)
                = {3}

\* A skill selected: no point carries a breakdown.
NoBreakdownForASkill ==
    breakdownSelection = "ATTACK" =>
        \A point \in BreakdownPointsMade : ~point.skillBreakdown.present

\* The two generators give the interval's point the same breakdown; not so
\* when no gain is admitted: generateChartData then gives an empty list and
\* generateChartDataFromDeltas none.
SameBreakdownInBothModes ==
    (breakdownPoints.snapshotMode.done /\ breakdownPoints.deltaMode.done)
        => breakdownPoints.snapshotMode.points[2].skillBreakdown
              = breakdownPoints.deltaMode.points[2].skillBreakdown
(***************************************************************************)
(* Anomaly detection by the interquartile range                            *)
(* (detectAnomalyTimestamps of GainsChart.tsx and TimeRangeSelector.tsx).  *)
(***************************************************************************)
\* data.map(d => d.dailyGain).filter(v => v > 0)
PositiveGains(data) ==
    SelectSeq([i \in 1..Len(data) |-> data[i].dailyGain], LAMBDA v : v > 0)

\* One step of the ascending sort: v goes before the first larger element.
RECURSIVE InsertAscending(_, _)
InsertAscending(sorted, v) ==
    IF sorted = <<>> THEN <<v>>
    ELSE IF v < Head(sorted) THEN <<v>> \o sorted
    ELSE <<Head(sorted)>> \o InsertAscending(Tail(sorted), v)

\* [...values].sort((a, b) => a - b)
RECURSIVE SortAscending(_)
SortAscending(values) ==
    IF values = <<>> THEN <<>>
    ELSE InsertAscending(SortAscending(SubSeq(values, 1, Len(values) - 1)),
                         values[Len(values)])

\* Math.floor(sorted.length * 0.25) and Math.floor(sorted.length * 0.75)
q1Index(sorted) == Len(sorted) \div 4

\* The upper quartile taken at the median: Math.floor(sorted.length * 0.5)
MedianIndex(sorted) == Len(sorted) \div 2

q3Index(sorted) == (3 * Len(sorted)) \div 4

\* q3 + 3 * iqr; the array indices of the code start at 0
upperBound(sorted) ==
    LET q1 == sorted[q1Index(sorted) + 1]
        q3 == sorted[q3Index(sorted) + 1]
        iqr == q3 - q1
    IN  q3 + 3 * iqr

\* d.dailyGain > upperBound
ExceedsUpperBound(gain, bound) == gain > bound

\* GainsChart.tsx
detectAnomalyTimestamps(data) ==
    LET values == PositiveGains(data)
        sorted == SortAscending(values)
    IN  IF Len(values) < 4 THEN {}
        ELSE {data[i].timestamp : i \in {j \in 1..Len(data) :
                  ExceedsUpperBound(data[j].dailyGain, upperBound(sorted))}}

\* TimeRangeSelector.tsx: the same function, defined a second time
detectAnomalyTimestampsOfSelector(data) ==
    LET values == PositiveGains(data)
        sorted == SortAscending(values)
    IN  IF Len(values) < 4 THEN {}
        ELSE {data[i].timestamp : i \in {j \in 1..Len(data) :
                  ExceedsUpperBound(data[j].dailyGain, upperBound(sorted))}}

\* The chart points handed to the detection: at most MaxPoints points at
\* distinct, ascending timestamps, their displayed gains drawn from
\* DisplayedGains (a loss, nothing, and gains around the bound 22 of the
\* quartiles 10 and 13).
MaxPoints == 5

DisplayedGains == {-5, 0, 10, 13, 22, 23}

DayMs == 86400000

PointAt(i, gain) == [timestamp |-> i * DayMs, dailyGain |-> gain]

NotDetected == [done |-> FALSE, flagged |-> {}]

AnomalyIdle ==
    /\ overallChartData = <<>>
    /\ anomalyTimestamps = [gainsChart |-> NotDetected, selector |-> NotDetected]

InitAnomaly ==
    /\ \E n \in 0..MaxPoints : \E gains \in [1..n -> DisplayedGains] :
           overallChartData = [i \in 1..n |-> PointAt(i, gains[i])]
    /\ anomalyTimestamps = [gainsChart |-> NotDetected, selector |-> NotDetected]

\* GainsChart's useMemo(() => detectAnomalyTimestamps(overallChartData))
DetectAnomalies ==
    /\ ~anomalyTimestamps.gainsChart.done
    /\ anomalyTimestamps' = [anomalyTimestamps EXCEPT !.gainsChart =
           [done |-> TRUE, flagged |-> detectAnomalyTimestamps(overallChartData)]]
    /\ UNCHANGED <<overallChartData, notAnomaly>>

\* TimeRangeSelector's useMemo(() => detectAnomalyTimestamps(overallChartData))
DetectAnomaliesOfSelector ==
    /\ ~anomalyTimestamps.selector.done
    /\ anomalyTimestamps' = [anomalyTimestamps EXCEPT !.selector =
           [done |-> TRUE,
            flagged |-> detectAnomalyTimestampsOfSelector(overallChartData)]]
    /\ UNCHANGED <<overallChartData, notAnomaly>>
(***************************************************************************)
(* Claims about the anomaly detection.                                     *)
(***************************************************************************)
\* The indices of the points with a strictly positive displayed gain.
PositivePoints == {i \in 1..Len(overallChartData) : overallChartData[i].dailyGain > 0}

\* The element at index k (from 0) of the positive gains in ascending order,
\* said without sorting: fewer than k+1 positive gains are smaller than it,
\* and at least k+1 are smaller or equal.
PositiveGainAtRank(k) ==
    CHOOSE v \in {overallChartData[i].dailyGain : i \in PositivePoints} :
        /\ Cardinality({i \in PositivePoints : overallChartData[i].dailyGain < v}) <= k
        /\ Cardinality({i \in PositivePoints : overallChartData[i].dailyGain <= v}) > k

\* Q3 + 3 * (Q3 - Q1), Q1 and Q3 at floor(n * 0.25) and floor(n * 0.75)
SpecifiedUpperBound ==
    LET n == Cardinality(PositivePoints)
        Q1 == PositiveGainAtRank(n \div 4)
        Q3 == PositiveGainAtRank((3 * n) \div 4)
    IN  Q3 + 3 * (Q3 - Q1)

SpecifiedAnomalies ==
    IF Cardinality(PositivePoints) < 4 THEN {}
    ELSE {overallChartData[i].timestamp : i \in {j \in 1..Len(overallChartData) :
              overallChartData[j].dailyGain > SpecifiedUpperBound}}

\* C12: detectAnomalyTimestamps, in the gains chart and in the time range
\* selector, flags exactly the points whose displayed gain exceeds
\* Q3 + 3 * (Q3 - Q1), Q1 and Q3 being the elements at the indices
\* floor(n * 0.25) and floor(n * 0.75) of the n strictly positive gains in
\* ascending order; with fewer than 4 positive gains it flags no point.
C12_FlagsExactlyTheGainsAboveTheBound ==
    /\ anomalyTimestamps.gainsChart.done =>
           anomalyTimestamps.gainsChart.flagged = SpecifiedAnomalies
    /\ anomalyTimestamps.selector.done =>
           anomalyTimestamps.selector.flagged = SpecifiedAnomalies

\* Five gains 10, 13, 10, 13, 23 (bound 22): only the fifth point is flagged,
\* by both copies of the function.
C12_Witness ==
    /\ anomalyTimestamps.gainsChart.done
    /\ anomalyTimestamps.selector.done
    /\ Len(overallChartData) = 5
    /\ Cardinality(PositivePoints) = 5
    /\ overallChartData[1].dailyGain = 13
    /\ overallChartData[5].dailyGain = 23
    /\ anomalyTimestamps.gainsChart.flagged = {5 * DayMs}
    /\ anomalyTimestamps.selector.flagged = {5 * DayMs}

\* Three positive gains flag nothing, whatever their size; a gain equal to
\* the bound is not flagged.
FewGainsFlagNothing ==
    anomalyTimestamps.gainsChart.done /\ Cardinality(PositivePoints) < 4
        => anomalyTimestamps.gainsChart.flagged = {}

GainAtTheBoundNotFlagged ==
    /\ anomalyTimestamps.gainsChart.done
    /\ Cardinality(PositivePoints) = 5
    /\ SpecifiedUpperBound = 22
    /\ \E i \in PositivePoints : overallChartData[i].dailyGain = 22
    /\ anomalyTimestamps.gainsChart.flagged = {}
(***************************************************************************)
(* The daily bar chart of GainsChart: the default ceiling of the y-axis    *)
(* (calculateYAxisDomain over the points that are no anomalies) and the    *)
(* colour the bar chart's fragment shader gives a bar.                     *)
(***************************************************************************)
\* Math.ceil(a / b) for whole a >= 0 and b > 0
CeilDiv(a, b) == (a + b - 1) \div b

\* Math.max(...values)
RECURSIVE MaxOf(_)
MaxOf(values) ==
    IF Len(values) = 1 THEN values[1]
    ELSE Max(values[1], MaxOf(Tail(values)))

\* maxNonOutlier + Math.ceil(maxNonOutlier * 0.05)
CeilingAbove(maxNonOutlier) == maxNonOutlier + CeilDiv(maxNonOutlier, 20)

\* calculateYAxisDomain(data, 'dailyGain', isSmallValue).domain[1]
calculateYAxisDomain(data, isSmallValue) ==
    LET values == PositiveGains(data)
    IN  IF Len(data) = 0 \/ Len(values) = 0 THEN 100
        ELSE
          LET max == MaxOf(values)
              minPadding == IF isSmallValue THEN Max(1, CeilDiv(max, 10))
                            ELSE 1000
              sorted == SortAscending(values)
          IN  IF Len(sorted) < 4
              THEN max + Max(CeilDiv(max, 10), minPadding)
              ELSE
                LET nonOutliers ==
                        SelectSeq(sorted, LAMBDA v : v <= upperBound(sorted))
                    maxNonOutlier ==
                        IF Len(nonOutliers) > 0
                        THEN nonOutliers[Len(nonOutliers)] ELSE max
                IN  CeilingAbove(maxNonOutlier)

\* overallChartData: the chart data themselves with no activity selected,
\* generateChartDataFromDeltas(deltaResponse, null) otherwise
OverallChartDataFor(response, selection, data) ==
    IF selection = Unset THEN data
    ELSE generateChartDataFromDeltas(response, Unset)

\* baseYAxisDomain[1]: the domain of the points that are no anomalies, or
\* of all points when fewer than two are left
baseYAxisMax(bars, anomalies, isSmallValue) ==
    LET filteredData ==
            SelectSeq(bars, LAMBDA b : b.timestamp \notin anomalies)
        dataForDomain == IF Len(filteredData) >= 2 THEN filteredData ELSE bars
    IN  calculateYAxisDomain(dataForDomain, isSmallValue)

\* vec3 color = v_value > v_yAxisMax ? u_overflowColor : u_barColor
InOverflowColour(value, yAxisMax) == value > yAxisMax

\* isSmallValueActivity: kill counts and scores, not experience
isSmallValueActivity(selection) == selection = "ZULRAH"

MaxBars == 6

\* What a day adds.  With no selection the bars are the overall experience
\* gained: a gain below the minimum of 100 (displayed as 0), gains of 100
\* and 104, of 300 and of 5000.  With a boss selected the bars are the kill
\* counts, none, 3 or 30, on days of 100 or 104 experience gained overall.
DayGainsOf(selection) ==
    IF selection = Unset
    THEN { [overall |-> g, kills |-> 0] : g \in {50, 100, 104, 300, 5000} }
    ELSE { [overall |-> 100, kills |-> 3], [overall |-> 100, kills |-> 30],
           [overall |-> 104, kills |-> 0], [overall |-> 104, kills |-> 30] }

DailyBase ==
    [overall |-> 1500, attack |-> 1000, attackLevel |-> 9, defence |-> 500,
     zulrah |-> 10, clue |-> 5]

\* The delta of day i: the experience gained in one skill, and the kills.
DailyDelta(day, i) ==
    DeltaOf([overall |-> day.overall, attack |-> day.overall,
             attackLevel |-> 0, defence |-> 0, zulrah |-> day.kills,
             clue |-> 0], i)

NotDrawn ==
    [done |-> FALSE, bars |-> <<>>, yAxisMax |-> 0, anomalies |-> {},
     overflow |-> {}]

OverflowIdle ==
    /\ dailyResponse = <<>>
    /\ dailySelection = Unset
    /\ dailyColours = NotDrawn

\* The chart is given the base snapshot and the deltas of up to MaxBars
\* days, oldest first.
InitOverflow ==
    /\ dailySelection \in {Unset, "ZULRAH"}
    /\ \E n \in 1..MaxBars : \E days \in [1..n -> DayGainsOf(dailySelection)] :
          dailyResponse =
              [snapshot |-> SnapshotOf(DailyBase, 0),
               deltas |-> [i \in 1..n |-> DailyDelta(days[i], i)]]
    /\ dailyColours = NotDrawn

\* GainsChart renders the daily bar chart, customCeiling null: the chart
\* data of the selection, the anomalies of the overall data, the base
\* domain without the anomaly days, and the shader's colour per bar.
DrawDailyBars ==
    /\ ~dailyColours.done
    /\ LET data == generateChartDataFromDeltas(dailyResponse, dailySelection)
           anomalies ==
               detectAnomalyTimestamps(
                   OverallChartDataFor(dailyResponse, dailySelection, data))
           yAxisMax == baseYAxisMax(data, anomalies,
                                    isSmallValueActivity(dailySelection))
       IN  dailyColours' =
              [done |-> TRUE,
               bars |-> [i \in 1..Len(data) |->
                            [timestamp |-> data[i].timestamp,
                             value |-> data[i].dailyGain]],
               yAxisMax |-> yAxisMax, anomalies |-> anomalies,
               overflow |->
                  { data[i].timestamp : i \in
                       { j \in 1..Len(data) :
                           InOverflowColour(data[j].dailyGain, yAxisMax) } }]
    /\ UNCHANGED <<dailyResponse, dailySelection>>
    /\ UNCHANGED notOverflow
(***************************************************************************)
(* Claims about the overflow colour.                                       *)
(***************************************************************************)
\* C25: in the daily bar chart with the default ceiling, for every activity
\* selection, a bar is drawn in the overflow colour if and only if its
\* point is one of the anomalies detected by the IQR rule.
C25_OverflowBarsAreTheAnomalies ==
    dailyColours.done => dailyColours.overflow = dailyColours.anomalies

\* Every bar in the overflow colour is an anomaly.
OverflowBarsAreAnomalies ==
    dailyColours.done => dailyColours.overflow \subseteq dailyColours.anomalies

\* Every anomaly is drawn in the overflow colour.
AnomaliesAreOverflowBars ==
    dailyColours.done => dailyColours.anomalies \subseteq dailyColours.overflow

\* With no selection every anomaly is drawn in the overflow colour.
OverallAnomaliesAreOverflowBars ==
    (dailyColours.done /\ dailySelection = Unset)
        => dailyColours.anomalies \subseteq dailyColours.overflow

\* With no selection every bar in the overflow colour is an anomaly.
OverallOverflowBarsAreAnomalies ==
    (dailyColours.done /\ dailySelection = Unset)
        => dailyColours.overflow \subseteq dailyColours.anomalies

\* The chart never shows an anomaly with exactly the anomalies in the
\* overflow colour.
NeverAnAnomalyInOverflowColour ==
    ~(dailyColours.done /\ dailyColours.anomalies # {}
        /\ dailyColours.overflow = dailyColours.anomalies)
(***************************************************************************)
(* The gain summaries of dataUtils.ts: calculateGainsFromDeltas and        *)
(* calculateGains.                                                         *)
(***************************************************************************)
\* A Map from activity type to a gain record: a set of entries, one per key.
\* Map.get: <<value>>, or <<>> (undefined) when the key has no entry.
GainsGet(map, key) ==
    IF \E e \in map : e.key = key
    THEN << (CHOOSE e \in map : e.key = key).value >>
    ELSE <<>>

\* Map.set, and the update in place of the object Map.get returned.
GainsSet(map, key, value) ==
    {e \in map : e.key # key} \cup {[key |-> key, value |-> value]}

\* The test on OVERALL dropped: every skill counts towards the total.
AnySkill(activityType) == TRUE

\* skill.activityType === 'OVERALL'
IsOverall(activityType) == activityType = "OVERALL"

\* The body of the loop over delta.skills.
AddSkillGain(acc, skill) ==
    LET existing == GainsGet(acc.skillGains, skill.activityType)
    IN  [acc EXCEPT
           !.totalExperienceGain =
               IF IsOverall(skill.activityType) THEN @ + skill.experienceGain
               ELSE @,
           !.skillGains =
               IF existing # <<>>
               THEN GainsSet(@, skill.activityType,
                        [experienceGain |-> existing[1].experienceGain
                                               + skill.experienceGain,
                         levelGain |-> existing[1].levelGain + skill.levelGain,
                         name |-> existing[1].name])
               ELSE GainsSet(@, skill.activityType,
                        [experienceGain |-> skill.experienceGain,
                         levelGain |-> skill.levelGain,
                         name |-> skill.name])]

\* The body of the loop over delta.bosses.
AddBossGain(acc, boss) ==
    LET existing == GainsGet(acc.bossGains, boss.activityType)
    IN  [acc EXCEPT !.bossGains =
               IF existing # <<>>
               THEN GainsSet(@, boss.activityType,
                        [killCountGain |-> existing[1].killCountGain
                                              + boss.killCountGain,
                         name |-> existing[1].name])
               ELSE GainsSet(@, boss.activityType,
                        [killCountGain |-> boss.killCountGain,
                         name |-> boss.name])]

\* The body of the loop over delta.activities.
AddActivityGain(acc, activity) ==
    LET existing == GainsGet(acc.activityGains, activity.activityType)
    IN  [acc EXCEPT !.activityGains =
               IF existing # <<>>
               THEN GainsSet(@, activity.activityType,
                        [scoreGain |-> existing[1].scoreGain
                                          + activity.scoreGain,
                         name |-> existing[1].name])
               ELSE GainsSet(@, activity.activityType,
                        [scoreGain |-> activity.scoreGain,
                         name |-> activity.name])]

\* for (const x of collection) ..., from index i on; if (delta.skills)
\* skips a collection that is undefined.
RECURSIVE AddSkillGains(_, _, _)
AddSkillGains(acc, skills, i) ==
    IF ~skills.present \/ i > Len(skills.items) THEN acc
    ELSE AddSkillGains(AddSkillGain(acc, skills.items[i]), skills, i + 1)

RECURSIVE AddBossGains(_, _, _)
AddBossGains(acc, bosses, i) ==
    IF ~bosses.present \/ i > Len(bosses.items) THEN acc
    ELSE AddBossGains(AddBossGain(acc, bosses.items[i]), bosses, i + 1)

RECURSIVE AddActivityGains(_, _, _)
AddActivityGains(acc, activities, i) ==
    IF ~activities.present \/ i > Len(activities.items) THEN acc
    ELSE AddActivityGains(AddActivityGain(acc, activities.items[i]),
                          activities, i + 1)

\* The body of the loop over the deltas.
AddDelta(acc, delta) ==
    AddActivityGains(
        AddBossGains(AddSkillGains(acc, delta.skills, 1), delta.bosses, 1),
        delta.activities, 1)

RECURSIVE AddDeltas(_, _, _)
AddDeltas(acc, deltas, i) ==
    IF i > Len(deltas) THEN acc
    ELSE AddDeltas(AddDelta(acc, deltas[i]), deltas, i + 1)

calculateGainsFromDeltas(deltas) ==
    AddDeltas([totalExperienceGain |-> 0, skillGains |-> {},
               bossGains |-> {}, activityGains |-> {}], deltas, 1)

(* ----------------------------- the inputs ------------------------------ *)
MaxSummaryDeltas == 3

Present(items) == [present |-> TRUE, items |-> items]

SkillDelta(activityType, experienceGain, levelGain) ==
    [activityType |-> activityType, name |-> activityType,
     experienceGain |-> experienceGain, levelGain |-> levelGain]

BossDelta(activityType, killCountGain) ==
    [activityType |-> activityType, name |-> activityType,
     killCountGain |-> killCountGain]

ActivityDelta(activityType, scoreGain) ==
    [activityType |-> activityType, name |-> activityType,
     scoreGain |-> scoreGain]

\* The deltas a sequence is made of: one without any collection; one whose
\* OVERALL gain is not the sum of its skills' gains; one without an OVERALL
\* entry; one with empty collections and two bosses; one with losses.
SummaryDeltas ==
    { [skills |-> Undefined, bosses |-> Undefined, activities |-> Undefined],
      [skills |-> Present(<< SkillDelta("OVERALL", 300, 1),
                             SkillDelta("ATTACK", 100, 1),
                             SkillDelta("DEFENCE", 150, 0) >>),
       bosses |-> Present(<< BossDelta("ZULRAH", 2) >>),
       activities |-> Undefined],
      [skills |-> Present(<< SkillDelta("ATTACK", 700, 2) >>),
       bosses |-> Undefined,
       activities |-> Present(<< ActivityDelta("CLUE_SCROLLS_ALL", 3) >>)],
      [skills |-> Present(<<>>),
       bosses |-> Present(<< BossDelta("VORKATH", 4), BossDelta("ZULRAH", 1) >>),
       activities |-> Present(<< ActivityDelta("GRID_POINTS", 5),
                                 ActivityDelta("CLUE_SCROLLS_ALL", 1) >>)],
      [skills |-> Present(<< SkillDelta("DEFENCE", -20, 0),
                             SkillDelta("OVERALL", -20, 0) >>),
       bosses |-> Undefined,
       activities |-> Undefined] }

NotCalculated == [done |-> FALSE, summary |-> <<>>]

DeltaGainsIdle ==
    /\ summaryDeltas = <<>>
    /\ deltaGainsSummary = NotCalculated

InitDeltaGains ==
    /\ \E n \in 0..MaxSummaryDeltas :
           summaryDeltas \in [1..n -> SummaryDeltas]
    /\ deltaGainsSummary = NotCalculated

CalculateGainsFromDeltas ==
    /\ ~deltaGainsSummary.done
    /\ deltaGainsSummary' =
           [done |-> TRUE, summary |-> calculateGainsFromDeltas(summaryDeltas)]
    /\ UNCHANGED <<summaryDeltas, notDeltaGains>>

(* --------------------------- calculateGains ---------------------------- *)
\* find answers undefined for every type: no entry of the old snapshot is
\* ever matched.
FindNothing(items, activityType) == <<>>

\* oldSnapshot.skills.find(s => s.activityType === newSkill.activityType)
FindOld(items, activityType) == Find(items, activityType)

\* newSnapshot.skills.map(...): <<gain>> per new skill, <<>> for null
SkillGainOf(oldSnapshot, newSkill) ==
    LET oldSkill == FindOld(oldSnapshot.skills, newSkill.activityType)
    IN  IF oldSkill = <<>> THEN <<>>
        ELSE << [activityType |-> newSkill.activityType,
                 name |-> newSkill.name,
                 levelGain |-> newSkill.level - oldSkill[1].level,
                 experienceGain |->
                     newSkill.experience - oldSkill[1].experience] >>

\* newSnapshot.bosses.map(...)
BossGainOf(oldSnapshot, newBoss) ==
    LET oldBoss == FindOld(oldSnapshot.bosses, newBoss.activityType)
    IN  IF oldBoss = <<>> THEN <<>>
        ELSE << [activityType |-> newBoss.activityType,
                 name |-> newBoss.name,
                 killCountGain |->
                     newBoss.killCount - oldBoss[1].killCount] >>

\* .filter(Boolean): the nulls dropped, the order kept
RECURSIVE SkillGainsOf(_, _, _)
SkillGainsOf(oldSnapshot, newSkills, i) ==
    IF i > Len(newSkills) THEN <<>>
    ELSE SkillGainOf(oldSnapshot, newSkills[i])
             \o SkillGainsOf(oldSnapshot, newSkills, i + 1)

RECURSIVE BossGainsOf(_, _, _)
BossGainsOf(oldSnapshot, newBosses, i) ==
    IF i > Len(newBosses) THEN <<>>
    ELSE BossGainOf(oldSnapshot, newBosses[i])
             \o BossGainsOf(oldSnapshot, newBosses, i + 1)

\* A snapshot argument: <<>> for null, <<snapshot>> otherwise; the value
\* returned likewise.
NoSnapshot == <<>>

calculateGains(oldSnapshot, newSnapshot) ==
    IF oldSnapshot = NoSnapshot \/ newSnapshot = NoSnapshot THEN <<>>
    ELSE << [skillGains |->
                 SkillGainsOf(oldSnapshot[1], newSnapshot[1].skills, 1),
             bossGains |->
                 BossGainsOf(oldSnapshot[1], newSnapshot[1].bosses, 1)] >>

\* The subsequences of a sequence of at most three items.
SubSequences(items) ==
    {SelectSeq(items, LAMBDA e : e \in kept) :
        kept \in SUBSET {items[i] : i \in 1..Len(items)}}

\* The older snapshot lists some of OVERALL, ATTACK and HITPOINTS and maybe
\* ZULRAH; the newer one some of DEFENCE, OVERALL and ATTACK and some of
\* VORKATH and ZULRAH; either may be null.
OldSnapshots ==
    {[skills |-> s, bosses |-> b] :
        s \in SubSequences(<< SkillEntry("OVERALL", "Overall", 20, 1000),
                              SkillEntry("ATTACK", "Attack", 7, 600),
                              SkillEntry("HITPOINTS", "Hitpoints", 10, 400) >>),
        b \in SubSequences(<< BossEntry("ZULRAH", "Zulrah", 10) >>)}

NewSnapshots ==
    {[skills |-> s, bosses |-> b] :
        s \in SubSequences(<< SkillEntry("DEFENCE", "Defence", 5, 50),
                              SkillEntry("OVERALL", "Overall", 22, 1300),
                              SkillEntry("ATTACK", "Attack", 7, 550) >>),
        b \in SubSequences(<< BossEntry("VORKATH", "Vorkath", 1),
                              BossEntry("ZULRAH", "Zulrah", 12) >>)}

NotCalled == [done |-> FALSE, value |-> <<>>]

SnapshotGainsIdle ==
    /\ olderSnapshot = NoSnapshot
    /\ newerSnapshot = NoSnapshot
    /\ snapshotGains = NotCalled

InitSnapshotGains ==
    /\ olderSnapshot \in {NoSnapshot} \cup {<<s>> : s \in OldSnapshots}
    /\ newerSnapshot \in {NoSnapshot} \cup {<<s>> : s \in NewSnapshots}
    /\ snapshotGains = NotCalled

CalculateGains ==
    /\ ~snapshotGains.done
    /\ snapshotGains' =
           [done |-> TRUE, value |-> calculateGains(olderSnapshot, newerSnapshot)]
    /\ UNCHANGED <<olderSnapshot, newerSnapshot, notSnapshotGains>>
(***************************************************************************)
(* Claims about the gain summaries.                                        *)
(***************************************************************************)
\* The entries of a collection ("skills", "bosses", "activities") in the
\* delta sequence: pairs of a delta's index and an entry's index.
EntriesIn(collection) ==
    {p \in (1..Len(summaryDeltas)) \X (1..3) :
        /\ summaryDeltas[p[1]][collection].present
        /\ p[2] <= Len(summaryDeltas[p[1]][collection].items)}

EntryAt(collection, p) == summaryDeltas[p[1]][collection].items[p[2]]

EntriesOfType(collection, activityType) ==
    {p \in EntriesIn(collection) :
        EntryAt(collection, p).activityType = activityType}

\* The sum of a field over a set of entries.
RECURSIVE SumOfGains(_, _, _)
SumOfGains(collection, field, entries) ==
    IF entries = {} THEN 0
    ELSE LET p == CHOOSE q \in entries : TRUE
         IN  EntryAt(collection, p)[field]
                 + SumOfGains(collection, field, entries \ {p})

TypesIn(collection) ==
    {EntryAt(collection, p).activityType : p \in EntriesIn(collection)}

\* A Map holds exactly the types that occur, each with the sum of its gains.
MapHoldsTheSums(map, collection, field) ==
    /\ {e.key : e \in map} = TypesIn(collection)
    /\ Cardinality(map) = Cardinality(TypesIn(collection))
    /\ \A e \in map :
           e.value[field] =
               SumOfGains(collection, field, EntriesOfType(collection, e.key))

\* C13: for any delta sequence, calculateGainsFromDeltas returns a
\* totalExperienceGain equal to the sum of experienceGain over the OVERALL
\* skill entries of all deltas, whatever the other skills gained, and for
\* each activity type a gain equal to the sum of that type's gains over the
\* deltas in which it occurs; a delta whose collection is absent contributes
\* nothing.
C13_SummaryIsTheSumOverDeltas ==
    deltaGainsSummary.done =>
        LET s == deltaGainsSummary.summary
        IN  /\ s.totalExperienceGain =
                   SumOfGains("skills", "experienceGain",
                              EntriesOfType("skills", "OVERALL"))
            /\ MapHoldsTheSums(s.skillGains, "skills", "experienceGain")
            /\ MapHoldsTheSums(s.skillGains, "skills", "levelGain")
            /\ MapHoldsTheSums(s.bossGains, "bosses", "killCountGain")
            /\ MapHoldsTheSums(s.activityGains, "activities", "scoreGain")

\* Three deltas: OVERALL +300 beside skill gains of 250, a delta without
\* OVERALL whose ATTACK gains 700, and one without any collection: the total
\* is 300, ATTACK sums to 800.
C13_Witness ==
    /\ deltaGainsSummary.done
    /\ Len(summaryDeltas) = 3
    /\ \E i \in 1..3 : ~summaryDeltas[i].skills.present
                       /\ ~summaryDeltas[i].bosses.present
    /\ deltaGainsSummary.summary.totalExperienceGain = 300
    /\ GainsGet(deltaGainsSummary.summary.skillGains, "ATTACK") # <<>>
    /\ GainsGet(deltaGainsSummary.summary.skillGains, "ATTACK")[1].experienceGain = 800
    /\ GainsGet(deltaGainsSummary.summary.bossGains, "ZULRAH")[1].killCountGain = 2
    /\ GainsGet(deltaGainsSummary.summary.activityGains, "CLUE_SCROLLS_ALL")[1].scoreGain = 3

\* The activity types of a list of entries.
TypesOf(items) == {items[i].activityType : i \in 1..Len(items)}

\* The value of the only entry of a type ("experience" or "killCount").
ValueIn(items, activityType, field) ==
    (CHOOSE e \in {items[i] : i \in 1..Len(items)} :
        e.activityType = activityType)[field]

\* One gain per entry of the new list whose type the old list has too, in
\* the new list's order, each the new value less the old one.
GainsAreTheDifferences(gainList, oldItems, newItems, field, gainField) ==
    LET common == SelectSeq(newItems,
                            LAMBDA e : e.activityType \in TypesOf(oldItems))
    IN  /\ Len(gainList) = Len(common)
        /\ \A i \in 1..Len(common) :
               /\ gainList[i].activityType = common[i].activityType
               /\ gainList[i][gainField] =
                      common[i][field]
                          - ValueIn(oldItems, common[i].activityType, field)

\* C14: calculateGains(old, new) emits exactly one gain entry for each skill
\* and each boss of the new snapshot whose activity type also occurs in the
\* old snapshot, equal to the new value minus the old value; an entry present
\* in only one of the two snapshots yields no gain entry, and the call
\* returns normally.
C14_OneGainPerCommonEntry ==
    snapshotGains.done /\ olderSnapshot # <<>> /\ newerSnapshot # <<>> =>
        /\ snapshotGains.value # <<>>
        /\ GainsAreTheDifferences(snapshotGains.value[1].skillGains,
               olderSnapshot[1].skills, newerSnapshot[1].skills,
               "experience", "experienceGain")
        /\ GainsAreTheDifferences(snapshotGains.value[1].skillGains,
               olderSnapshot[1].skills, newerSnapshot[1].skills,
               "level", "levelGain")
        /\ GainsAreTheDifferences(snapshotGains.value[1].bossGains,
               olderSnapshot[1].bosses, newerSnapshot[1].bosses,
               "killCount", "killCountGain")

\* HITPOINTS only in the old snapshot, DEFENCE and VORKATH only in the new
\* one: the gains are those of OVERALL, ATTACK and ZULRAH alone.
C14_Witness ==
    /\ snapshotGains.done
    /\ olderSnapshot # <<>> /\ newerSnapshot # <<>>
    /\ TypesOf(olderSnapshot[1].skills) = {"OVERALL", "ATTACK", "HITPOINTS"}
    /\ TypesOf(newerSnapshot[1].skills) = {"OVERALL", "ATTACK", "DEFENCE"}
    /\ TypesOf(newerSnapshot[1].bosses) = {"VORKATH", "ZULRAH"}
    /\ TypesOf(olderSnapshot[1].bosses) = {"ZULRAH"}
    /\ snapshotGains.value[1].skillGains =
           << [activityType |-> "OVERALL", name |-> "Overall",
               levelGain |-> 2, experienceGain |-> 300],
              [activityType |-> "ATTACK", name |-> "Attack",
               levelGain |-> 0, experienceGain |-> -50] >>
    /\ snapshotGains.value[1].bossGains =
           << [activityType |-> "ZULRAH", name |-> "Zulrah",
               killCountGain |-> 2] >>

\* With a null snapshot the call returns null.
NullSnapshotGivesNull ==
    snapshotGains.done /\ (olderSnapshot = <<>> \/ newerSnapshot = <<>>)
        => snapshotGains.value = <<>>
(***************************************************************************)
(* The gains page (GainsTracker): the total gain of the summary card,      *)
(* computed from the deltas, next to the chart generated from them.        *)
(***************************************************************************)
\* One pass of the loop of getActivityGainFromDeltas, skills only: a boss's
\* or an activity's delta adds nothing.
SkillContribution(delta, activityType) ==
    LET skillDelta == Find(delta.skills.items, activityType)
    IN  IF skillDelta # <<>>
        THEN [totalGain |-> skillDelta[1].experienceGain,
              levelGain |-> skillDelta[1].levelGain]
        ELSE [totalGain |-> 0, levelGain |-> 0]

\* One pass of the loop of getActivityGainFromDeltas: what the delta adds to
\* totalGain and levelGain
ContributionOf(delta, activityType) ==
    LET skillDelta    == Find(delta.skills.items, activityType)
        bossDelta     == Find(delta.bosses.items, activityType)
        activityDelta == Find(delta.activities.items, activityType)
    IN  IF skillDelta # <<>>
        THEN [totalGain |-> skillDelta[1].experienceGain,
              levelGain |-> skillDelta[1].levelGain]
        ELSE IF bossDelta # <<>>
        THEN [totalGain |-> bossDelta[1].killCountGain, levelGain |-> 0]
        ELSE IF activityDelta # <<>>
        THEN [totalGain |-> activityDelta[1].scoreGain, levelGain |-> 0]
        ELSE [totalGain |-> 0, levelGain |-> 0]

RECURSIVE ActivityGainFrom(_, _, _)
\* The loop over the deltas, from index i on.
ActivityGainFrom(deltas, activityType, i) ==
    IF i > Len(deltas) THEN [totalGain |-> 0, levelGain |-> 0]
    ELSE LET this == ContributionOf(deltas[i], activityType)
             rest == ActivityGainFrom(deltas, activityType, i + 1)
         IN  [totalGain |-> this.totalGain + rest.totalGain,
              levelGain |-> this.levelGain + rest.levelGain]

\* getActivityGainFromDeltas(deltas, activityType)
getActivityGainFromDeltas(deltas, activityType) ==
    ActivityGainFrom(deltas, activityType, 1)

\* The totalGain memo of GainsTracker
TotalGainOf(response, selection) ==
    IF Len(response.deltas) = 0 THEN [totalGain |-> 0, levelGain |-> 0]
    ELSE IF selection = "OVERALL"
    THEN [totalGain |->
              calculateGainsFromDeltas(response.deltas).totalExperienceGain,
          levelGain |-> 0]
    ELSE getActivityGainFromDeltas(response.deltas, selection)

MaxTrackerDeltas == 2

\* The selection of the gains page: 'OVERALL' unless the address names one
TrackerSelections ==
    {"OVERALL", "ATTACK", "DEFENCE", "ZULRAH", "CLUE_SCROLLS_ALL"}

NoTotal == [done |-> FALSE, totalGain |-> 0, levelGain |-> 0]

NothingShown == [chart |-> NotGenerated, total |-> NoTotal]

TrackerIdle ==
    /\ trackerResponse = <<>>
    /\ trackerSelection = "OVERALL"
    /\ tracker = NothingShown

\* A base snapshot and the deltas of up to MaxTrackerDeltas intervals, each
\* with at most one entry per activity type, oldest or newest first.
InitTracker ==
    /\ \E base \in BaseSnapshots, n \in 0..MaxTrackerDeltas,
          newestFirst \in BOOLEAN :
          \E gains \in [1..n -> IntervalGains] :
              trackerResponse =
                 [snapshot |-> SnapshotOf(base, 0),
                  deltas |-> Arrange([i \in 1..n |-> DeltaOf(gains[i], i)],
                                     newestFirst)]
    /\ trackerSelection \in TrackerSelections
    /\ tracker = NothingShown

\* GainsChart's chartData memo for the page's response and selection
TrackerChart ==
    /\ ~tracker.chart.done
    /\ tracker' = [tracker EXCEPT !.chart =
          [done |-> TRUE,
           points |-> generateChartDataFromDeltas(trackerResponse,
                                                  trackerSelection)]]
    /\ UNCHANGED <<trackerResponse, trackerSelection>>
    /\ UNCHANGED notTracker

\* GainsTracker's totalGain memo
TrackerTotal ==
    /\ ~tracker.total.done
    /\ tracker' = [tracker EXCEPT !.total =
          [done |-> TRUE,
           totalGain |-> TotalGainOf(trackerResponse,
                                     trackerSelection).totalGain,
           levelGain |-> TotalGainOf(trackerResponse,
                                     trackerSelection).levelGain]]
    /\ UNCHANGED <<trackerResponse, trackerSelection>>
    /\ UNCHANGED notTracker
(***************************************************************************)
(* Claims about the summary card and the chart.                            *)
(***************************************************************************)
TrackerShown == tracker.chart.done /\ tracker.total.done

\* The rise of the chart: the last point's cumulative value above the first
ChartRise ==
    tracker.chart.points[Len(tracker.chart.points)].cumulativeValue
        - tracker.chart.points[1].cumulativeValue

\* The first chart point carries the base snapshot's value.
ChartStartsAtTheBase ==
    tracker.chart.done =>
        tracker.chart.points[1].cumulativeValue
            = extractActivityData(trackerResponse.snapshot,
                                  trackerSelection).value

\* C28: for every activity selection and every delta sequence in which each
\* delta holds at most one entry per activity type, the cumulative value of
\* the last chart point minus the base snapshot's value equals the total
\* gain shown in the summary card.
C28_ChartRiseIsTheSummaryTotal ==
    /\ ChartStartsAtTheBase
    /\ TrackerShown => ChartRise = tracker.total.totalGain

\* Two deltas listed newest first, a boss selected, with kill count gains
\* of 3 and 10,000,001: the chart rises by 10,000,004 and the card shows it.
C28_Witness ==
    /\ TrackerShown
    /\ trackerSelection = "ZULRAH"
    /\ Len(trackerResponse.deltas) = 2
    /\ trackerResponse.deltas[1].timestamp > trackerResponse.deltas[2].timestamp
    /\ ChartRise = 10000004
    /\ tracker.total.totalGain = 10000004

\* Total XP with a gain the chart hides: counted by both.
OverallTotalShown ==
    /\ TrackerShown
    /\ trackerSelection = "OVERALL"
    /\ Len(trackerResponse.deltas) = 2
    /\ tracker.chart.points[2].dailyGain = 0
    /\ tracker.total.totalGain = 11000300
    /\ ChartRise = 11000300
(***************************************************************************)
(* The calendar heatmap's cell grid (DailyHeatmap.tsx).                    *)
(* Times are hours of local time since 1 January 1970, days are days       *)
(* since then; 1 January 1970 was a Thursday.                              *)
(***************************************************************************)
\* date.setHours(0, 0, 0, 0), as a day
DayOf(time) == time \div 24

\* Date.prototype.getDay: 0 for Sunday
getDay(day) == (day + 4) % 7

\* The new column begun on Mondays.
StartsNewWeekOnMonday(dayOfWeek, cellsArray) ==
    dayOfWeek = 1 /\ Len(cellsArray) > 0

\* dayOfWeek === 0 && cellsArray.length > 0
StartsNewWeek(dayOfWeek, cellsArray) ==
    dayOfWeek = 0 /\ Len(cellsArray) > 0

\* while (currentDate <= endDate) { ... }
RECURSIVE GenerateCellsFrom(_, _, _, _)
GenerateCellsFrom(currentDate, endDate, weekIndex, cellsArray) ==
    IF currentDate > endDate THEN cellsArray
    ELSE LET dayOfWeek == getDay(currentDate)
             week == IF StartsNewWeek(dayOfWeek, cellsArray)
                     THEN weekIndex + 1 ELSE weekIndex
         IN  GenerateCellsFrom(currentDate + 1, endDate, week,
                 Append(cellsArray, [date |-> currentDate,
                                     weekIndex |-> week,
                                     dayOfWeek |-> dayOfWeek]))

\* The cells of the grid for a time range.
HeatmapCells(range) ==
    LET endDate == DayOf(range.endTime)
        startDate == DayOf(range.startTime)
        startSunday == startDate - getDay(startDate)
    IN  GenerateCellsFrom(startSunday, endDate, 0, <<>>)

\* The ranges: a start on each day of the week of Monday 1 January 2024, at
\* midnight or in the afternoon, and an end up to MaxHeatmapDays days later
\* (or a little before the start).
MaxHeatmapDays == 16

FirstStartDay == 19723

TimeRanges ==
    {[startTime |-> 24 * day + hour, endTime |-> 24 * (day + span) + endHour] :
        day \in FirstStartDay..(FirstStartDay + 6), hour \in {0, 13},
        span \in (-4)..MaxHeatmapDays, endHour \in {0, 13}}

NoCells == [done |-> FALSE, cells |-> <<>>]

HeatmapIdle ==
    /\ heatmapRange = [startTime |-> 0, endTime |-> 0]
    /\ heatmap = NoCells

InitHeatmap ==
    /\ heatmapRange \in TimeRanges
    /\ heatmap = NoCells

\* The memo of the component: { cells, monthLabels }
GenerateCells ==
    /\ ~heatmap.done
    /\ heatmap' = [done |-> TRUE, cells |-> HeatmapCells(heatmapRange)]
    /\ UNCHANGED <<heatmapRange, notHeatmap>>
(***************************************************************************)
(* Claims about the heatmap's cell grid.                                   *)
(***************************************************************************)
\* The calendar, said from known days: 7 January 2024 (day 19729) was a
\* Sunday, 3 January 2024 (day 19725) a Wednesday.
IsSunday(day) == (day - 19729) % 7 = 0

IsWednesday(day) == (day - 19725) % 7 = 0

StartsOnWednesday == IsWednesday(heatmapRange.startTime \div 24)

\* The week column goes up by one at each cell of a Sunday after the first
\* cell, and nowhere else.
ColumnStepsAtSundays ==
    \A i \in 2..Len(heatmap.cells) :
        heatmap.cells[i].weekIndex =
            heatmap.cells[i - 1].weekIndex
                + (IF IsSunday(heatmap.cells[i].date) THEN 1 ELSE 0)

\* C15, as stated: for a range starting on a Wednesday the first cell
\* generated has day-of-week index 3 and week column 0, and the week column
\* increases by exactly one at each later Sunday and nowhere else.
C15_FirstCellOnTheStartDay ==
    heatmap.done /\ StartsOnWednesday /\ heatmap.cells # <<>> =>
        /\ heatmap.cells[1].dayOfWeek = 3
        /\ heatmap.cells[1].weekIndex = 0
        /\ ColumnStepsAtSundays

\* C15, as the code has it: for a range starting on a Wednesday the first
\* cell generated is that of the Sunday before the start (day-of-week index
\* 0, week column 0); the start day's cell, the fourth, has day-of-week
\* index 3 and week column 0; and the week column increases by exactly one
\* at each later Sunday and nowhere else.
C15_FirstCellOnTheSundayBefore ==
    heatmap.done /\ StartsOnWednesday /\ heatmap.cells # <<>> =>
        /\ heatmap.cells[1].dayOfWeek = 0
        /\ heatmap.cells[1].weekIndex = 0
        /\ heatmap.cells[1].date = (heatmapRange.startTime \div 24) - 3
        /\ Len(heatmap.cells) >= 4 =>
               /\ heatmap.cells[4].date = heatmapRange.startTime \div 24
               /\ heatmap.cells[4].dayOfWeek = 3
               /\ heatmap.cells[4].weekIndex = 0
        /\ ColumnStepsAtSundays

\* A range from Wednesday 3 January 2024 over two later Sundays: the cells
\* run from Sunday 31 December in column 0 to column 2.
C15_Witness ==
    /\ heatmap.done
    /\ heatmapRange.startTime \div 24 = 19725
    /\ Len(heatmap.cells) >= 16
    /\ heatmap.cells[1].date = 19722
    /\ heatmap.cells[4].dayOfWeek = 3
    /\ heatmap.cells[8].weekIndex = 1
    /\ heatmap.cells[15].weekIndex = 2
(***************************************************************************)
(* The calendar heatmap's gain per day: the aggregation of the deltas      *)
(* (the delta-mode heatmap) and of the differences of consecutive          *)
(* snapshots (DailyHeatmap.tsx) into one number per calendar day.  A date  *)
(* key is the day of the local time.                                       *)
(***************************************************************************)
\* dailyGains.get(dateKey) || 0
DayGet(dailyGains, dateKey) ==
    IF dateKey \in DOMAIN dailyGains THEN dailyGains[dateKey] ELSE 0

\* dailyGains.set(dateKey, value)
DaySet(dailyGains, dateKey, value) ==
    [k \in DOMAIN dailyGains \cup {dateKey} |->
        IF k = dateKey THEN value ELSE dailyGains[k]]

\* No cap on the day's total.
AnyDayTotal(newTotal) == TRUE

\* newTotal <= 10_000_000
WithinDayCap(newTotal) == newTotal <= OutlierThreshold

\* The accumulation of one gain into its day, shared by the two heatmaps
AccumulateDayGain(dailyGains, dateKey, gain) ==
    LET currentDayGain == DayGet(dailyGains, dateKey)
        newTotal == currentDayGain + gain
    IN  IF WithinDayCap(newTotal) THEN DaySet(dailyGains, dateKey, newTotal)
        ELSE dailyGains

\* delta.skills?.find(s => s.activityType === 'OVERALL')?.experienceGain || 0
OverallGainOf(delta) ==
    LET overall == Find(delta.skills.items, "OVERALL")
    IN  IF overall = <<>> THEN 0 ELSE overall[1].experienceGain

RECURSIVE DailyGainsOfDeltas(_, _, _)
\* for (const delta of deltas) { ... }, from index i on
DailyGainsOfDeltas(dailyGains, deltas, i) ==
    IF i > Len(deltas) THEN dailyGains
    ELSE LET dateKey == DayOf(deltas[i].timestamp)
             overallGain == OverallGainOf(deltas[i])
         IN  DailyGainsOfDeltas(
                 IF overallGain > OutlierThreshold THEN dailyGains
                 ELSE AccumulateDayGain(dailyGains, dateKey, overallGain),
                 deltas, i + 1)

RECURSIVE DailyGainsOfSnapshots(_, _, _)
\* for (let i = 1; i < sorted.length; i++) { ... }, from index i on (the
\* second snapshot is index 2 here)
DailyGainsOfSnapshots(dailyGains, sorted, i) ==
    IF i > Len(sorted) THEN dailyGains
    ELSE LET prevOverall == Find(sorted[i - 1].skills, "OVERALL")
             currOverall == Find(sorted[i].skills, "OVERALL")
             expGain == currOverall[1].experience - prevOverall[1].experience
             skip == \/ prevOverall = <<>> \/ currOverall = <<>>
                     \/ expGain < 0 \/ expGain > OutlierThreshold
         IN  DailyGainsOfSnapshots(
                 IF skip THEN dailyGains
                 ELSE AccumulateDayGain(dailyGains,
                                        DayOf(sorted[i].timestamp), expGain),
                 sorted, i + 1)

\* const experience = dailyGains.get(dateKey) || 0, of the cell of a day
CellExperience(dailyGains, day) == DayGet(dailyGains, day)

MaxDayDeltas == 4

\* The OVERALL gain of a delta: none listed, nothing, 4, 6 and 10 million,
\* and one above the cap
DayGainValues == { -1, 0, 4000000, 6000000, 10000000, 10000001 }

\* The days of the heatmap: deltas land on the first two
HeatmapDays == FirstStartDay..(FirstStartDay + 2)

\* The hour of the day at which the i-th delta was taken
HourOf(i) == 2 * i

DayDeltaAt(i, day, gain) ==
    [timestamp |-> 24 * day + HourOf(i),
     skills |-> Optional(
        IF gain < 0 THEN <<>>
        ELSE << SkillDelta("OVERALL", gain, 0),
                SkillDelta("ATTACK", gain, 0) >>),
     bosses |-> Optional(<<>>),
     activities |-> Optional(<<>>)]

\* The days n deltas in time order land on: the first or the second day of
\* the heatmap
DaysInTimeOrder(n) ==
    { s \in [1..n -> {0, 1}] : \A i \in 2..n : s[i - 1] <= s[i] }

RECURSIVE ExperienceAfter(_, _)
\* The OVERALL experience after the first i deltas, from 1000
ExperienceAfter(deltas, i) ==
    IF i = 0 THEN 1000
    ELSE ExperienceAfter(deltas, i - 1) + OverallGainOf(deltas[i])

\* The snapshots the deltas lie between: one the day before the heatmap's
\* first, and one at the time of every delta
SnapshotsOf(deltas) ==
    [i \in 1..(Len(deltas) + 1) |->
        [timestamp |-> IF i = 1 THEN 24 * (FirstStartDay - 1)
                       ELSE deltas[i - 1].timestamp,
         skills |-> << SkillEntry("OVERALL", "Overall", 20,
                                  ExperienceAfter(deltas, i - 1)) >>,
         bosses |-> <<>>,
         activities |-> <<>>]]

NotAggregated == [done |-> FALSE, dailyGains |-> <<>>]

NoDayCells == [deltaMode |-> NotAggregated, snapshotMode |-> NotAggregated]

DayGainsIdle ==
    /\ dayDeltas = <<>>
    /\ dayCells = NoDayCells

\* Deltas in time order on the first two days of the heatmap
InitDayGains ==
    /\ \E n \in 1..MaxDayDeltas :
          \E day \in DaysInTimeOrder(n), g \in [1..n -> DayGainValues] :
              dayDeltas =
                 [i \in 1..n |-> DayDeltaAt(i, FirstStartDay + day[i], g[i])]
    /\ dayCells = NoDayCells

\* The cells memo of the delta-mode heatmap
AggregateDeltas ==
    /\ ~dayCells.deltaMode.done
    /\ dayCells' = [dayCells EXCEPT !.deltaMode =
          [done |-> TRUE,
           dailyGains |-> DailyGainsOfDeltas(<<>>, dayDeltas, 1)]]
    /\ UNCHANGED dayDeltas
    /\ UNCHANGED notDayGains

\* The cells memo of the snapshot-mode heatmap
AggregateSnapshots ==
    /\ ~dayCells.snapshotMode.done
    /\ dayCells' = [dayCells EXCEPT !.snapshotMode =
          [done |-> TRUE,
           dailyGains |->
              DailyGainsOfSnapshots(<<>>, SnapshotsOf(dayDeltas), 2)]]
    /\ UNCHANGED dayDeltas
    /\ UNCHANGED notDayGains
(***************************************************************************)
(* Claims about the gain per day.                                          *)
(***************************************************************************)
\* The deltas landing on a day
DeltasOn(day) ==
    { i \in 1..Len(dayDeltas) : DayOf(dayDeltas[i].timestamp) = day }

RECURSIVE SumOfOverallGains(_)
SumOfOverallGains(indices) ==
    IF indices = {} THEN 0
    ELSE LET i == CHOOSE k \in indices : TRUE
         IN  OverallGainOf(dayDeltas[i]) + SumOfOverallGains(indices \ {i})

DayTotal(day) == SumOfOverallGains(DeltasOn(day))

\* No cell above the cap, and the sum itself where the day's total is
\* within the cap.
CellsCappedAndExact(dailyGains) ==
    \A day \in HeatmapDays :
        /\ CellExperience(dailyGains, day) <= 10000000
        /\ DayTotal(day) <= 10000000
              => CellExperience(dailyGains, day) = DayTotal(day)

\* C29: for deltas with non-negative gains, each heatmap cell's aggregated
\* gain never exceeds 10,000,000 whatever number of deltas land on that
\* calendar day, and when the OVERALL gains of the deltas landing on a day
\* total at most 10,000,000 the cell carries exactly their sum.
C29_DayGainCappedCumulatively ==
    /\ dayCells.deltaMode.done =>
          CellsCappedAndExact(dayCells.deltaMode.dailyGains)
    /\ dayCells.snapshotMode.done =>
          CellsCappedAndExact(dayCells.snapshotMode.dailyGains)

\* Three deltas of 4, 6 and 4 million on one day and one of 4 million on the
\* next: the first day's cell holds exactly 10 million, the third delta
\* left out, the second day's cell 4 million, in both heatmaps.
C29_Witness ==
    /\ dayCells.deltaMode.done
    /\ dayCells.snapshotMode.done
    /\ Len(dayDeltas) = 4
    /\ DayTotal(FirstStartDay) = 14000000
    /\ DayTotal(FirstStartDay + 1) = 4000000
    /\ CellExperience(dayCells.deltaMode.dailyGains, FirstStartDay) = 10000000
    /\ CellExperience(dayCells.snapshotMode.dailyGains, FirstStartDay)
          = 10000000
    /\ CellExperience(dayCells.deltaMode.dailyGains, FirstStartDay + 1)
          = 4000000

\* The two heatmaps agree on every day.
HeatmapsAgree ==
    (dayCells.deltaMode.done /\ dayCells.snapshotMode.done)
        => \A day \in HeatmapDays :
              CellExperience(dayCells.deltaMode.dailyGains, day)
                 = CellExperience(dayCells.snapshotMode.dailyGains, day)

\* A day's cell never holds less than the day's total.
NeverBelowTheDayTotal ==
    dayCells.deltaMode.done =>
        \A day \in HeatmapDays :
            CellExperience(dayCells.deltaMode.dailyGains, day) >= DayTotal(day)
(***************************************************************************)
(* The gains page (GainsTracker.tsx) and its data hook                     *)
(* (useSnapshotInterval of useApi.ts).                                     *)
(***************************************************************************)
NoUser == "none"

Users == {"alice", "bob"}

\* The time ranges of the page: the default one and another
TimeRangeChoices == {"last year", "custom"}

\* The parameters a request was made for; the API client keeps one request
\* in flight per user and time range.
RequestFor(user, range) == [user |-> user, range |-> range]

NothingSettled == [user |-> NoUser, range |-> "none", outcome |-> "none"]

\* useState's initial value in useSnapshotInterval
InitialHookState == [data |-> "null", loading |-> FALSE, error |-> FALSE]

\* {error && !loading && <ErrorAlert .../>}
ErrorAlertShown == hookState.error /\ ~hookState.loading

\* {userId && !loading && (!snapshots || snapshots.length === 0) && ...}
NoDataPanel(page, state) ==
    /\ page # NoUser
    /\ ~state.loading
    /\ state.data \in {"null", "empty"}

NoDataPanelShown == NoDataPanel(pageUser, hookState)

\* fetchData up to its await: the state it sets and the request it awaits.
\* Calls for the same user and time range while one is in flight share that
\* request.
FetchData ==
    IF pageUser = NoUser
    THEN /\ hookState' = [data |-> "null", loading |-> FALSE, error |-> FALSE]
         /\ UNCHANGED <<pendingFetches, fetchStarted>>
    ELSE /\ hookState' = [hookState EXCEPT !.loading = TRUE, !.error = FALSE]
         /\ pendingFetches' = pendingFetches \cup {RequestFor(pageUser, pageRange)}
         /\ fetchStarted' = TRUE

PageIdle ==
    /\ pageUser = NoUser
    /\ pageRange = "last year"
    /\ hookState = InitialHookState
    /\ effectPending = FALSE
    /\ pendingFetches = {}
    /\ fetchStarted = FALSE
    /\ lastSettled = NothingSettled

\* The first render: the user from the URL's player parameter, the effect
\* that calls fetchData yet to run.
InitPage ==
    /\ pageUser \in Users \cup {NoUser}
    /\ pageRange \in TimeRangeChoices
    /\ hookState = InitialHookState
    /\ effectPending = TRUE
    /\ pendingFetches = {}
    /\ fetchStarted = FALSE
    /\ lastSettled = NothingSettled

\* useEffect(() => { fetchData(); }, [fetchData]) after a render in which
\* fetchData changed
RunEffect ==
    /\ effectPending
    /\ effectPending' = FALSE
    /\ FetchData
    /\ UNCHANGED <<pageUser, pageRange, lastSettled, notPage>>

\* UserSelector's onUserIdChange={setUserId}: the page renders with the new
\* user and the hook's state as it is; the effect runs after the render.
SelectUser ==
    /\ \E u \in (Users \cup {NoUser}) \ {pageUser} : pageUser' = u
    /\ effectPending' = TRUE
    /\ UNCHANGED <<pageRange, hookState, pendingFetches, fetchStarted,
                   lastSettled, notPage>>

\* TimeRangeSelector's onRangeChange={setTimeRange} and a drag on the chart
\* (handleChartTimeRangeSelect): the page takes the range.  fetchData
\* changes, and the effect runs after the render, only when the range holds
\* other Date objects than the one shown: a range of other times always
\* does, and so does a drag over the span shown (WebGLLineChart makes new
\* Date objects); the preset that is selected is the object shown (React
\* does not render), and the custom panel applied with no other days picked
\* passes the Date objects shown.
SelectRange ==
    /\ \E r \in TimeRangeChoices, newDates \in BOOLEAN :
          /\ r # pageRange => newDates
          /\ pageRange' = r
          /\ effectPending' = (effectPending \/ newDates)
    /\ UNCHANGED <<pageUser, hookState, pendingFetches, fetchStarted,
                   lastSettled, notPage>>

\* The Retry button of the no-data panel and of the error alert
Refetch ==
    /\ ~effectPending
    /\ NoDataPanelShown \/ ErrorAlertShown
    /\ FetchData
    /\ UNCHANGED <<pageUser, pageRange, effectPending, lastSettled, notPage>>

\* The request resolves: every fetchData awaiting it sets the data.
FetchSucceeds ==
    /\ \E q \in pendingFetches, result \in {"empty", "snapshots"} :
          /\ hookState' = [data |-> result, loading |-> FALSE, error |-> FALSE]
          /\ pendingFetches' = pendingFetches \ {q}
          /\ lastSettled' =
                 [user |-> q.user, range |-> q.range, outcome |-> result]
    /\ UNCHANGED <<pageUser, pageRange, effectPending, fetchStarted, notPage>>

\* The request rejects: every fetchData awaiting it sets the error.
FetchFails ==
    /\ \E q \in pendingFetches :
          /\ hookState' = [data |-> "null", loading |-> FALSE, error |-> TRUE]
          /\ pendingFetches' = pendingFetches \ {q}
          /\ lastSettled' =
                 [user |-> q.user, range |-> q.range, outcome |-> "failed"]
    /\ UNCHANGED <<pageUser, pageRange, effectPending, fetchStarted, notPage>>
(***************************************************************************)
(* The combat level of a snapshot (calculateCombatLevel of dataUtils.ts).  *)
(* The code's floating-point values are kept as whole fortieths:           *)
(* 0.25 = 10/40 and 0.325 = 13/40; for levels up to 126 the floating-point *)
(* floor equals the exact one.                                             *)
(***************************************************************************)
\* A skill not found counted as level 0.
getSkillLevelOrZero(skills, type) ==
    LET found == Find(skills, type)
    IN  IF found = <<>> \/ found[1].level = 0 THEN 0 ELSE found[1].level

\* skills.find(s => s.activityType === type)?.level || 1
getSkillLevel(skills, type) ==
    LET found == Find(skills, type)
    IN  IF found = <<>> \/ found[1].level = 0 THEN 1 ELSE found[1].level

\* Math.max of three numbers
Max3(a, b, c) == Max(a, Max(b, c))

calculateCombatLevel(skills) ==
    LET attack == getSkillLevel(skills, "ATTACK")
        strength == getSkillLevel(skills, "STRENGTH")
        defence == getSkillLevel(skills, "DEFENCE")
        hitpoints == getSkillLevel(skills, "HITPOINTS")
        ranged == getSkillLevel(skills, "RANGED")
        magic == getSkillLevel(skills, "MAGIC")
        prayer == getSkillLevel(skills, "PRAYER")
        base40 == 10 * (defence + hitpoints + (prayer \div 2))
        melee40 == 13 * (attack + strength)
        ranger40 == 13 * ((ranged \div 2) + ranged)
        mage40 == 13 * ((magic \div 2) + magic)
    IN  (base40 + Max3(melee40, ranger40, mage40)) \div 40

\* The snapshots: each combat skill missing (0 below) or at level 1, 70 or
\* 99, beside a skill that does not count.
CombatSkills ==
    <<"ATTACK", "STRENGTH", "DEFENCE", "HITPOINTS", "RANGED", "MAGIC", "PRAYER">>

SkillsAt(levels) ==
    << SkillEntry("COOKING", "Cooking", 99, 13034431) >> \o
    [i \in 1..Len(SelectSeq(CombatSkills, LAMBDA t : levels[t] # 0)) |->
        LET t == SelectSeq(CombatSkills, LAMBDA u : levels[u] # 0)[i]
        IN  SkillEntry(t, t, levels[t], 0)]

NotComputed == [done |-> FALSE, level |-> 0]

CombatIdle ==
    /\ combatSkills = <<>>
    /\ combatLevel = NotComputed

InitCombat ==
    /\ \E levels \in [{CombatSkills[i] : i \in 1..7} -> {0, 1, 70, 99}] :
           combatSkills = SkillsAt(levels)
    /\ combatLevel = NotComputed

\* extractOverallData's call for a snapshot
CalculateCombatLevel ==
    /\ ~combatLevel.done
    /\ combatLevel' = [done |-> TRUE, level |-> calculateCombatLevel(combatSkills)]
    /\ UNCHANGED <<combatSkills, notCombat>>
(***************************************************************************)
(* Claims about the combat level.                                          *)
(***************************************************************************)
\* The level a skill counts with: its level, 1 when the snapshot lacks it.
LevelOf(type) ==
    IF \E i \in 1..Len(combatSkills) : combatSkills[i].activityType = type
    THEN (CHOOSE e \in {combatSkills[i] : i \in 1..Len(combatSkills)} :
              e.activityType = type).level
    ELSE 1

\* The largest of the numbers of a set.
Largest(numbers) == CHOOSE n \in numbers : \A m \in numbers : m <= n

\* floor(0.25 * (defence + hitpoints + floor(prayer / 2)) + 0.325 * max(...)),
\* in fortieths
SpecifiedCombatLevel ==
    (10 * (LevelOf("DEFENCE") + LevelOf("HITPOINTS") + (LevelOf("PRAYER") \div 2))
     + 13 * Largest({LevelOf("ATTACK") + LevelOf("STRENGTH"),
                     (LevelOf("RANGED") \div 2) + LevelOf("RANGED"),
                     (LevelOf("MAGIC") \div 2) + LevelOf("MAGIC")})) \div 40

AllMeleeAt99 ==
    /\ \A t \in {"ATTACK", "STRENGTH", "DEFENCE", "HITPOINTS", "PRAYER"} :
           LevelOf(t) = 99
    /\ LevelOf("RANGED") = 1
    /\ LevelOf("MAGIC") = 1

\* C18: the combat level computed for a snapshot equals
\* floor(0.25 * (defence + hitpoints + floor(prayer / 2))
\*       + 0.325 * max(attack + strength, floor(ranged / 2) + ranged,
\*                     floor(magic / 2) + magic)),
\* every skill missing from the snapshot counting as level 1; with attack,
\* strength, defence, hitpoints and prayer at 99 and ranged and magic at 1
\* it is 126.
C18_CombatLevelFormula ==
    combatLevel.done =>
        /\ combatLevel.level = SpecifiedCombatLevel
        /\ AllMeleeAt99 => combatLevel.level = 126

\* The example of the claim, with ranged and magic missing from the
\* snapshot.
C18_Witness ==
    /\ combatLevel.done
    /\ AllMeleeAt99
    /\ ~\E i \in 1..Len(combatSkills) :
           combatSkills[i].activityType \in {"RANGED", "MAGIC"}
    /\ combatLevel.level = 126

\* Ranged decides the level: 99 ranged beside melee skills at 1.
RangedDecides ==
    /\ combatLevel.done
    /\ LevelOf("RANGED") = 99
    /\ LevelOf("ATTACK") = 1 /\ LevelOf("STRENGTH") = 1 /\ LevelOf("MAGIC") = 1
    /\ LevelOf("DEFENCE") = 70 /\ LevelOf("HITPOINTS") = 70 /\ LevelOf("PRAYER") = 70
    /\ combatLevel.level = 91
(***************************************************************************)
(* Claims about the gains page.                                            *)
(***************************************************************************)
PanelNotWhileLoading == NoDataPanelShown => ~hookState.loading

PanelNotBesideErrorAlert == ~(NoDataPanelShown /\ ErrorAlertShown)

PanelNotBeforeFirstFetch == NoDataPanelShown => fetchStarted

PanelOnlyAfterEmptyResult ==
    NoDataPanelShown =>
        (lastSettled.user = pageUser /\ lastSettled.outcome = "empty")

\* C16: on the gains page the no-data panel is shown only when a fetch for
\* the selected user has completed successfully with an empty result: never
\* while a fetch is loading, never together with the error alert after a
\* failed fetch, and never before the first fetch has started.
C16_NoDataPanelOnlyAfterEmptyResult ==
    /\ PanelOnlyAfterEmptyResult
    /\ PanelNotWhileLoading
    /\ PanelNotBesideErrorAlert
    /\ PanelNotBeforeFirstFetch

\* The fetch for the selected user failed: the error alert and the no-data
\* panel are on the page together.
PanelBesideErrorAlert ==
    /\ pageUser = "alice"
    /\ lastSettled.user = "alice"
    /\ lastSettled.outcome = "failed"
    /\ pendingFetches = {}
    /\ ~effectPending
    /\ NoDataPanelShown
    /\ ErrorAlertShown

\* The first render with a user from the URL: the panel is on the page and
\* no fetch has started.
PanelInTheFirstRender ==
    /\ pageUser = "alice"
    /\ ~fetchStarted
    /\ NoDataPanelShown

\* Where the panel is right: the selected user's fetch came back empty.
PanelAfterEmptyResult ==
    /\ pageUser = "alice"
    /\ lastSettled.user = "alice"
    /\ lastSettled.outcome = "empty"
    /\ pendingFetches = {}
    /\ NoDataPanelShown
    /\ ~ErrorAlertShown

\* Every request has settled and the effect has run for the selected user.
AllSettled ==
    /\ pageUser # NoUser
    /\ ~effectPending
    /\ fetchStarted
    /\ pendingFetches = {}

\* Once every request has settled, the state is the outcome of the request
\* for the selected user and time range.
LatestResponseShown ==
    AllSettled =>
        (lastSettled.user = pageUser /\ lastSettled.range = pageRange)

\* The same for a change of the time range alone: when the request that
\* settled last was for the selected user, it was for the selected range.
LatestRangeShown ==
    (AllSettled /\ lastSettled.user = pageUser)
        => lastSettled.range = pageRange

\* While the selected user's request is in flight, loading is reported.
LoadingWhileLatestPending ==
    (pageUser # NoUser /\ ~effectPending
        /\ RequestFor(pageUser, pageRange) \in pendingFetches)
        => hookState.loading

\* C24: when the fetch parameters change while the fetch for the earlier
\* parameters is in flight, the data finally displayed are the response to
\* the latest parameters (a superseded response arriving later never
\* overwrites it), and loading is not reported as finished while the latest
\* request is pending.
C24_LatestRequestWins == LatestResponseShown /\ LoadingWhileLatestPending
(***************************************************************************)
(* The bar chart's gestures (WebGLBarChart): the drag on the y-axis, the   *)
(* range selection, and the touches on the canvas, one finger moving the   *)
(* hover indicator, two fingers zooming and panning the view window.       *)
(* The canvas is at the left edge of the window (rect.left = 0), the       *)
(* fingers of a touch are level with each other, and the chart renders     *)
(* between two events.                                                     *)
(***************************************************************************)
NoGesture ==
    [isRangeSelecting |-> FALSE, rangeStartX |-> Null, rangeEndX |-> Null,
     hoveredBar |-> Null,
     isYAxisDragging |-> FALSE, dragStartY |-> 0,
     isPinching |-> FALSE, lastTouch |-> <<>>, viewRange |-> <<>>]

\* a * b / c for whole results, without leaving 32 bits on the way
MulDiv(a, b, c) == (a \div c) * b + ((a % c) * b) \div c

\* fullTimeRange: the first and the last timestamp of the data
fullTimeRange(p) == timeRange(p)

\* viewRange ? { min: viewRange.start, max: viewRange.end } : fullTimeRange
currentRange(p, s) ==
    IF s.viewRange # <<>>
    THEN [min |-> s.viewRange[1].start, max |-> s.viewRange[1].end]
    ELSE fullTimeRange(p)

\* The loop of updateIndicatorFromTouch over the data: the index of the
\* point closest to the timestamp, the first of them on a tie.
ClosestTo(p, timestamp) ==
    CHOOSE i \in 1..Len(p.data) :
        \A j \in 1..Len(p.data) :
            \/ Abs(p.data[i] - timestamp) < Abs(p.data[j] - timestamp)
            \/ Abs(p.data[i] - timestamp) = Abs(p.data[j] - timestamp) /\ i <= j

\* updateIndicatorFromTouch (hoverLineX is set with hoveredBar)
updateIndicatorFromTouch(p, s, x) ==
    LET relativeX == x - marginLeft(p)
        range == currentRange(p, s)
    IN  IF relativeX >= 0 /\ relativeX <= chartWidth(p) /\ Len(p.data) > 0
        THEN [s EXCEPT !.hoveredBar =
                 ClosestTo(p, range.min + MulDiv(range.max - range.min,
                                                 relativeX, chartWidth(p)))]
        ELSE s

\* Math.hypot(touch2.clientX - touch1.clientX, touch2.clientY - touch1.clientY)
\* for fingers level with each other
TouchDistance(fingers) == Abs(fingers[2] - fingers[1])

\* (touch1.clientX + touch2.clientX) / 2
TouchCenter(fingers) == (fingers[1] + fingers[2]) \div 2

\* lastTouchRef.current = { x, distance, timestamp: Date.now() }; the
\* timestamp is never read
TouchRecord(x, distance) == << [x |-> x, distance |-> distance] >>

\* handleTouchStart, e.touches given as the fingers' x positions
handleTouchStart(p, s, fingers) ==
    IF Len(p.data) = 0 THEN s
    ELSE IF Len(fingers) = 2
    THEN [s EXCEPT !.isPinching = TRUE,
                   !.lastTouch = TouchRecord(TouchCenter(fingers),
                                             TouchDistance(fingers)),
                   !.hoveredBar = Null]
    ELSE IF Len(fingers) = 1
    THEN [updateIndicatorFromTouch(p, s, fingers[1])
             EXCEPT !.lastTouch = TouchRecord(fingers[1], 0)]
    ELSE s

\* The scaled span taken as it is, neither bound applied.
SpanUnclamped(p, span) == span

\* Math.max(24 * 60 * 60 * 1000,
\*          Math.min(fullTimeRange.max - fullTimeRange.min, timeSpan * scale))
SpanAtLeastOneDay(p, span) ==
    Max(DayMs, Min(fullTimeRange(p).max - fullTimeRange(p).min, span))

\* The two-finger branch of handleTouchMove: the view window it sets.
PinchedViewRange(p, s, fingers) ==
    LET full == fullTimeRange(p)
        range == currentRange(p, s)
        timeSpan == range.max - range.min
        last == s.lastTouch[1]
        newDistance == TouchDistance(fingers)
        centerX == TouchCenter(fingers)
        relativeCenterX == centerX - marginLeft(p)
        \* centerRatio, as a number of pixels of the plot's width
        centerPixels == Max(0, Min(chartWidth(p), relativeCenterX))
        newTimeSpan ==
            SpanAtLeastOneDay(p, MulDiv(timeSpan, last.distance, newDistance))
        deltaX == last.x - centerX
        deltaTime == MulDiv(timeSpan, deltaX, chartWidth(p))
        centerTimestamp ==
            range.min + MulDiv(timeSpan, centerPixels, chartWidth(p))
        newStart == centerTimestamp
                        - MulDiv(newTimeSpan, centerPixels, chartWidth(p))
                        + deltaTime
        newEnd == centerTimestamp
                      + MulDiv(newTimeSpan, chartWidth(p) - centerPixels,
                               chartWidth(p))
                      + deltaTime
        \* if (newStart < fullTimeRange.min) { ... }
        start1 == IF newStart < full.min THEN full.min ELSE newStart
        end1 == IF newStart < full.min THEN full.min + newTimeSpan ELSE newEnd
        \* if (newEnd > fullTimeRange.max) { ... }
        end2 == IF end1 > full.max THEN full.max ELSE end1
        start2 == IF end1 > full.max THEN full.max - newTimeSpan ELSE start1
    IN  << [start |-> Max(full.min, start2), end |-> Min(full.max, end2)] >>

\* handleTouchMove
handleTouchMove(p, s, fingers) ==
    IF Len(p.data) = 0 \/ s.lastTouch = <<>> THEN s
    ELSE IF Len(fingers) = 2 /\ s.isPinching
    THEN [s EXCEPT !.viewRange = PinchedViewRange(p, s, fingers),
                   !.lastTouch = TouchRecord(TouchCenter(fingers),
                                             TouchDistance(fingers)),
                   !.hoveredBar = Null]
    ELSE IF Len(fingers) = 1 /\ ~s.isPinching
    THEN [updateIndicatorFromTouch(p, s, fingers[1])
             EXCEPT !.lastTouch = TouchRecord(fingers[1], 0)]
    ELSE s

\* handleTouchEnd, the timer it arms apart
handleTouchEnd(s) == [s EXCEPT !.isPinching = FALSE]

\* The callback of handleTouchEnd's setTimeout(..., 2000)
ClearHover(s) == [s EXCEPT !.hoveredBar = Null]

\* handleYAxisMouseDown
handleYAxisMouseDown(s, clientY) ==
    [s EXCEPT !.isYAxisDragging = TRUE, !.dragStartY = clientY]

\* handleYAxisMouseUp, a mouseup listener of the document
handleYAxisMouseUp(s) == [s EXCEPT !.isYAxisDragging = FALSE]

\* The state handleRangeMouseUp leaves, whether or not it calls
\* onTimeRangeSelect
RangeSelectionReset(s) ==
    [s EXCEPT !.isRangeSelecting = FALSE, !.rangeStartX = Null,
              !.rangeEndX = Null]

\* The document's mouseup listeners, in the order they were added.
DocumentMouseUp(s) == RangeSelectionReset(handleYAxisMouseUp(s))

\* handleCanvasMouseMove of the bar chart with the view window applied (the
\* timeRange it reads is the view window once one is set)
handleCanvasMouseMoveInView(p, s, x) ==
    IF Len(p.data) = 0 THEN s
    ELSE IF InPlot(p, x) THEN updateIndicatorFromTouch(p, s, x)
    ELSE [s EXCEPT !.hoveredBar = Null]

(* ----------------------- the fingers and the mouse --------------------- *)
MaxPinchMoves == 2      \* two-finger moves followed
MaxHoverTimers == 1     \* armed hover-clearing timers followed

\* Bar chart data in ascending order of timestamp: half a day of data, and
\* four days of data.
GestureDataSets ==
    { <<0, DayMs \div 2>>, <<DayMs, 2 * DayMs, 4 * DayMs>> }

\* The bar chart on a narrow screen: a plot area 256 pixels wide.
GestureProps ==
    { [chart |-> "bar", width |-> 311, data |-> d, onTimeRangeSelect |-> f] :
         d \in GestureDataSets, f \in BOOLEAN }

\* Two fingers on the chart, the first to the left: their centre at the left edge, the middle or
\* the right edge of the plot area, 64 or 128 pixels apart, so that every
\* ratio the handler takes is a power of two and every product exact.
PinchCenters(p) == { 0, chartWidth(p) \div 2, chartWidth(p) }

PinchDistances == { 64, 128 }

TwoFingers(p) ==
    { << marginLeft(p) + c - (w \div 2), marginLeft(p) + c + (w \div 2) >> :
         c \in PinchCenters(p), w \in PinchDistances }

\* Where one finger can be: wherever a finger of two can be.
OneFinger(p) == { t[1] : t \in TwoFingers(p) }

\* Where the pointer can be: over the y-axis zone, in the plot area, and
\* beside the canvas.
PointerPositions(p) == { 20, marginLeft(p) + 192, p.width + 40 }

OverYAxis(p, x) == x >= 0 /\ x < marginLeft(p)

NoGestureEvent == [name |-> "none", repeatChanges |-> FALSE]

GestureIdle ==
    /\ gestureProps = [chart |-> "none", width |-> 0, data |-> <<>>,
                       onTimeRangeSelect |-> FALSE]
    /\ gesture = NoGesture
    /\ touches = <<>>
    /\ pointer = [x |-> 0, button |-> "up"]
    /\ hoverTimers = 0
    /\ pinchMoves = 0
    /\ gestureEvent = NoGestureEvent

InitGesture ==
    /\ gestureProps \in GestureProps
    /\ gesture = NoGesture
    /\ touches = <<>>
    /\ \E x \in PointerPositions(gestureProps) :
          pointer = [x |-> x, button |-> "up"]
    /\ hoverTimers = 0
    /\ pinchMoves = 0
    /\ gestureEvent = NoGestureEvent

\* mousedown: on the y-axis zone, which lies over the canvas's left margin,
\* or on the canvas
GestureMouseDown ==
    /\ pointer.button = "up"
    /\ gesture' =
          IF OverYAxis(gestureProps, pointer.x)
          THEN handleYAxisMouseDown(gesture, 100)
          ELSE IF OnCanvas(gestureProps, pointer.x)
          THEN handleRangeMouseDown(gestureProps, gesture, pointer.x)
          ELSE gesture
    /\ pointer' = [pointer EXCEPT !.button = "down"]
    /\ gestureEvent' = [name |-> "mousedown", repeatChanges |-> FALSE]
    /\ UNCHANGED <<gestureProps, touches, hoverTimers, pinchMoves>>
    /\ UNCHANGED notGesture

\* mousemove: the document's listener, then the canvas's handler when the
\* pointer is on the canvas and not over the y-axis zone, or the canvas's
\* mouseleave handler when the pointer has just left it (handleYAxisMouseMove
\* changes no state of the chart)
GestureMouseMove ==
    /\ \E x \in PointerPositions(gestureProps) :
          /\ x # pointer.x
          /\ gesture' =
                LET ranged == handleRangeMouseMove(gestureProps, gesture, x)
                    wasOn == OnCanvas(gestureProps, pointer.x)
                               /\ ~OverYAxis(gestureProps, pointer.x)
                    isOn == OnCanvas(gestureProps, x)
                               /\ ~OverYAxis(gestureProps, x)
                IN  IF isOn
                    THEN handleCanvasMouseMoveInView(gestureProps, ranged, x)
                    ELSE IF wasOn THEN handleCanvasMouseLeaveBar(ranged)
                    ELSE ranged
          /\ pointer' = [pointer EXCEPT !.x = x]
    /\ gestureEvent' = [name |-> "mousemove", repeatChanges |-> FALSE]
    /\ UNCHANGED <<gestureProps, touches, hoverTimers, pinchMoves>>
    /\ UNCHANGED notGesture

\* mouseup anywhere in the document
GestureMouseUp ==
    /\ pointer.button = "down"
    /\ gesture' = DocumentMouseUp(gesture)
    /\ pointer' = [pointer EXCEPT !.button = "up"]
    /\ gestureEvent' =
          [name |-> "mouseup",
           repeatChanges |->
              DocumentMouseUp(gesture') # gesture']
    /\ UNCHANGED <<gestureProps, touches, hoverTimers, pinchMoves>>
    /\ UNCHANGED notGesture

\* touchstart: a first finger, or a second beside the first
TouchStart ==
    /\ Len(touches) < 2
    /\ \E placed \in (IF touches = <<>>
                      THEN { <<x>> : x \in OneFinger(gestureProps) }
                      ELSE { t \in TwoFingers(gestureProps) :
                                t[1] = touches[1] }) :
          /\ touches' = placed
          /\ gesture' = handleTouchStart(gestureProps, gesture, placed)
    /\ gestureEvent' = [name |-> "touchstart", repeatChanges |-> FALSE]
    /\ UNCHANGED <<gestureProps, pointer, hoverTimers, pinchMoves>>
    /\ UNCHANGED notGesture

\* touchmove: the fingers that are down move
TouchMove ==
    /\ touches # <<>>
    /\ Len(touches) = 2 /\ gesture.isPinching => pinchMoves < MaxPinchMoves
    /\ \E moved \in (IF Len(touches) = 1
                     THEN { <<x>> : x \in OneFinger(gestureProps) }
                     ELSE TwoFingers(gestureProps)) :
          /\ moved # touches
          /\ touches' = moved
          /\ gesture' = handleTouchMove(gestureProps, gesture, moved)
    /\ pinchMoves' = IF Len(touches) = 2 /\ gesture.isPinching
                     THEN pinchMoves + 1 ELSE pinchMoves
    /\ gestureEvent' = [name |-> "touchmove", repeatChanges |-> FALSE]
    /\ UNCHANGED <<gestureProps, pointer, hoverTimers>>
    /\ UNCHANGED notGesture

\* touchend: a finger is lifted; the handler arms the timer that clears the
\* hover indicator
TouchEnd ==
    /\ touches # <<>>
    /\ hoverTimers < MaxHoverTimers
    /\ \E i \in 1..Len(touches) :
          touches' = SubSeq(touches, 1, i - 1)
                        \o SubSeq(touches, i + 1, Len(touches))
    /\ gesture' = handleTouchEnd(gesture)
    /\ hoverTimers' = hoverTimers + 1
    /\ gestureEvent' =
          [name |-> "touchend",
           repeatChanges |-> handleTouchEnd(gesture') # gesture']
    /\ UNCHANGED <<gestureProps, pointer, pinchMoves>>
    /\ UNCHANGED notGesture

\* Two seconds after a touchend its timer clears the hover indicator.
HoverTimerFires ==
    /\ hoverTimers > 0
    /\ gesture' = ClearHover(gesture)
    /\ hoverTimers' = hoverTimers - 1
    /\ gestureEvent' = [name |-> "timer", repeatChanges |-> FALSE]
    /\ UNCHANGED <<gestureProps, touches, pointer, pinchMoves>>
    /\ UNCHANGED notGesture

\* The Reset Zoom button, shown while a view window is set
ResetZoom ==
    /\ gesture.viewRange # <<>>
    /\ gesture' = [gesture EXCEPT !.viewRange = <<>>]
    /\ gestureEvent' = [name |-> "reset", repeatChanges |-> FALSE]
    /\ UNCHANGED <<gestureProps, touches, pointer, hoverTimers, pinchMoves>>
    /\ UNCHANGED notGesture
(***************************************************************************)
(* Claims about the bar chart's gestures.                                  *)
(***************************************************************************)
AfterRelease == gestureEvent.name \in {"mouseup", "touchend"}

\* A mouse-up ends the mouse's gestures: the range selection with its
\* positions and the y-axis drag.
MouseUpEndsMouseGestures ==
    gestureEvent.name = "mouseup" =>
        /\ ~gesture.isRangeSelecting
        /\ ~gesture.isYAxisDragging
        /\ gesture.rangeStartX = Null
        /\ gesture.rangeEndX = Null

\* A touch-end ends the pinch.
TouchEndEndsPinching ==
    gestureEvent.name = "touchend" => ~gesture.isPinching

\* The handlers of a release change nothing when they run a second time.
ReleaseHandlersIdempotent == AfterRelease => ~gestureEvent.repeatChanges

\* C19: after every mouse-up and every touch-end, whatever state the chart
\* was in, no gesture state remains: the chart is not selecting a range, not
\* dragging the y-axis and not pinching, no range start or end position and
\* no last-touch record is left, and the same event again changes nothing.
C19_NoGestureStateAfterRelease ==
    AfterRelease =>
        /\ ~gesture.isRangeSelecting
        /\ ~gesture.isYAxisDragging
        /\ ~gesture.isPinching
        /\ gesture.rangeStartX = Null
        /\ gesture.rangeEndX = Null
        /\ gesture.lastTouch = <<>>
        /\ ~gestureEvent.repeatChanges

\* The last-touch record is never left behind by a touch-end that lifts the
\* last finger.
NoLastTouchAfterLastFingerLifted ==
    ~(gestureEvent.name = "touchend" /\ touches = <<>>
        /\ gesture.lastTouch # <<>>)

\* A mouse-up never leaves the chart pinching.
NoPinchingAfterMouseUp ==
    ~(gestureEvent.name = "mouseup" /\ gesture.isPinching)

\* A touch-end never leaves the chart selecting a range.
NoRangeSelectionAfterTouchEnd ==
    ~(gestureEvent.name = "touchend" /\ gesture.isRangeSelecting
        /\ gesture.rangeStartX # Null)

\* The span of the data and of the view window.
FullSpan == fullTimeRange(gestureProps).max - fullTimeRange(gestureProps).min

ViewSpan == gesture.viewRange[1].end - gesture.viewRange[1].start

TwoDistinctTimestamps ==
    \E i, j \in 1..Len(gestureProps.data) :
        gestureProps.data[i] # gestureProps.data[j]

ViewWithinFullRange ==
    /\ fullTimeRange(gestureProps).min <= gesture.viewRange[1].start
    /\ gesture.viewRange[1].start < gesture.viewRange[1].end
    /\ gesture.viewRange[1].end <= fullTimeRange(gestureProps).max

\* C20 as stated: after two-finger moves, for data with two distinct
\* timestamps, the view window lies within the data's range, start before
\* end, and spans at least one day and at most the data's span.
C20_ViewWindowSpansAtLeastOneDay ==
    gesture.viewRange # <<>> /\ TwoDistinctTimestamps =>
        /\ ViewWithinFullRange
        /\ ViewSpan >= DayMs
        /\ ViewSpan <= FullSpan

\* C20: after two-finger moves, for data with two distinct timestamps, the
\* view window lies within the data's range, start before end, and spans at
\* most the data's span; it spans at least one day where the data span a
\* day or more, and is the data's whole range where they span less.
C20_ViewWindowWithinTheData ==
    gesture.viewRange # <<>> /\ TwoDistinctTimestamps =>
        /\ ViewWithinFullRange
        /\ ViewSpan <= FullSpan
        /\ FullSpan >= DayMs => ViewSpan >= DayMs
        /\ FullSpan < DayMs => ViewSpan = FullSpan

\* Two-finger moves have zoomed in to one day of four and panned away from
\* the start of the data.
C20_Witness ==
    /\ gesture.viewRange # <<>>
    /\ pinchMoves > 0
    /\ FullSpan > DayMs
    /\ ViewSpan = DayMs
    /\ gesture.viewRange[1].start > fullTimeRange(gestureProps).min

\* Data of half a day are never shown in a window of their own.
ShortDataNeverZoomed == ~(gesture.viewRange # <<>> /\ FullSpan < DayMs)

\* The window is never zoomed to a span between one day and the data's.
NeverPartlyZoomed ==
    ~(gesture.viewRange # <<>> /\ ViewSpan > DayMs /\ ViewSpan < FullSpan)
(***************************************************************************)
(* The line chart's reveal animation (WebGLLineChart): the effect that     *)
(* starts an animation when the data's identity changes, the start timer   *)
(* and the animation frames.  Time passes in ticks, RevealDuration of them *)
(* to the animation's 1000 ms; the progress is kept in units of            *)
(* 1 / RevealDuration^3, in which the cubic easing is exact.               *)
(***************************************************************************)
RevealDuration == 3       \* ticks in the duration of an animation
MaxDataChanges == 2       \* changes of the data's identity followed

\* The progress 1
FullProgress == RevealDuration * RevealDuration * RevealDuration

\* The data sets the chart is given, told apart by their identity (first
\* timestamp, last timestamp, length, sum of values).
DataIdentities == {1, 2}

\* const eased = 1 - Math.pow(1 - t, 3) for t = min(elapsed / duration, 1)
Eased(elapsed) ==
    LET left == RevealDuration - Min(elapsed, RevealDuration)
    IN  FullProgress - left * left * left

\* clearTimeout / cancelAnimationFrame: the callback with that id is no
\* longer pending (0 for a null ref: nothing to cancel)
KeepPending(callbacks, id) == callbacks

CancelPending(callbacks, id) == { c \in callbacks : c.anim # id }

\* lastDataIdRef '' and the null refs, progress 0
RevealUnstarted ==
    [glReady |-> FALSE, lastDataId |-> 0, animationTimeout |-> 0,
     animationFrame |-> 0, progress |-> 0, animationStarted |-> FALSE]

RevealIdle ==
    /\ revealData = [identity |-> 0, array |-> 0]
    /\ reveal = RevealUnstarted
    /\ revealEffectDue = FALSE
    /\ revealTimeouts = {}
    /\ revealFrames = {}
    /\ revealAnimations = 0
    /\ revealWriter = 0
    /\ revealChanges = 0

\* The chart is mounted with data; its effects are still to run.
InitReveal ==
    /\ \E i \in DataIdentities : revealData = [identity |-> i, array |-> 0]
    /\ reveal = RevealUnstarted
    /\ revealEffectDue = TRUE
    /\ revealTimeouts = {}
    /\ revealFrames = {}
    /\ revealAnimations = 0
    /\ revealWriter = 0
    /\ revealChanges = 0

\* The WebGL effect ends with setGlReady(true), which runs the animation
\* effect again.
GlBecomesReady ==
    /\ ~reveal.glReady
    /\ reveal' = [reveal EXCEPT !.glReady = TRUE]
    /\ revealEffectDue' = TRUE
    /\ UNCHANGED <<revealData, revealTimeouts, revealFrames,
                   revealAnimations, revealWriter, revealChanges>>
    /\ UNCHANGED notReveal

\* The parent renders the chart with a new data array of another identity.
DataChanges ==
    /\ revealChanges < MaxDataChanges
    /\ \E i \in DataIdentities \ {revealData.identity} :
          revealData' = [identity |-> i, array |-> 0]
    /\ revealChanges' = revealChanges + 1
    /\ revealEffectDue' = TRUE
    /\ UNCHANGED <<reveal, revealTimeouts, revealFrames, revealAnimations,
                   revealWriter>>
    /\ UNCHANGED notReveal

\* The parent renders the chart with a new data array of the same identity.
DataRerendered ==
    /\ ~revealEffectDue
    /\ revealData' = [revealData EXCEPT !.array = 1 - @]
    /\ revealEffectDue' = TRUE
    /\ UNCHANGED <<reveal, revealTimeouts, revealFrames, revealAnimations,
                   revealWriter, revealChanges>>
    /\ UNCHANGED notReveal

\* The animation effect, useEffect(..., [glReady, data])
AnimationEffect ==
    /\ revealEffectDue
    /\ revealEffectDue' = FALSE
    /\ IF reveal.glReady /\ revealData.identity # reveal.lastDataId
       THEN /\ revealAnimations' = revealAnimations + 1
            /\ revealTimeouts' =
                  CancelPending(revealTimeouts, reveal.animationTimeout)
                     \cup { [anim |-> revealAnimations',
                             delay |-> IF reveal.lastDataId = 0
                                       THEN 300 ELSE 50] }
            /\ revealFrames' =
                  CancelPending(revealFrames, reveal.animationFrame)
            /\ reveal' = [reveal EXCEPT
                            !.lastDataId = revealData.identity,
                            !.animationTimeout = revealAnimations',
                            !.animationFrame = 0,
                            !.animationStarted = FALSE,
                            !.progress = 0]
            /\ revealWriter' = 0
       ELSE UNCHANGED <<reveal, revealTimeouts, revealFrames,
                        revealAnimations, revealWriter>>
    /\ UNCHANGED <<revealData, revealChanges>>
    /\ UNCHANGED notReveal

\* The callback of the effect's setTimeout: it requests the first frame.
StartTimerFires ==
    /\ \E timer \in revealTimeouts :
          /\ revealTimeouts' = revealTimeouts \ {timer}
          /\ revealFrames' =
                revealFrames \cup { [anim |-> timer.anim, elapsed |-> 0] }
          /\ reveal' = [reveal EXCEPT !.animationTimeout = 0,
                                      !.animationStarted = TRUE,
                                      !.animationFrame = timer.anim]
    /\ UNCHANGED <<revealData, revealEffectDue, revealAnimations,
                   revealWriter, revealChanges>>
    /\ UNCHANGED notReveal

\* A tick of performance.now() while an animation is on its way.
RevealTick ==
    /\ \E frame \in revealFrames : frame.elapsed < RevealDuration
    /\ revealFrames' =
          { [frame EXCEPT !.elapsed = Min(RevealDuration, @ + 1)] :
               frame \in revealFrames }
    /\ UNCHANGED <<revealData, reveal, revealEffectDue, revealTimeouts,
                   revealAnimations, revealWriter, revealChanges>>
    /\ UNCHANGED notReveal

\* animate, the callback of requestAnimationFrame
AnimationFrameFires ==
    /\ \E frame \in revealFrames :
          /\ revealFrames' =
                IF frame.elapsed < RevealDuration THEN revealFrames
                ELSE revealFrames \ {frame}
          /\ reveal' = [reveal EXCEPT
                          !.progress = Eased(frame.elapsed),
                          !.animationFrame =
                              IF frame.elapsed < RevealDuration
                              THEN frame.anim ELSE 0]
          /\ revealWriter' = frame.anim
    /\ UNCHANGED <<revealData, revealEffectDue, revealTimeouts,
                   revealAnimations, revealChanges>>
    /\ UNCHANGED notReveal
(***************************************************************************)
(* Claims about the line chart's reveal animation.                         *)
(***************************************************************************)
\* While the chart animates the same data identity, the progress does not
\* decrease.
ProgressNeverDecreases ==
    [][reveal'.lastDataId = reveal.lastDataId
          => reveal'.progress >= reveal.progress]_vars

\* When the chart takes up a new identity, nothing of the previous
\* animation stays pending and the progress is 0.
ChangeCancelsAndRestarts ==
    [][reveal'.lastDataId # reveal.lastDataId
          => /\ reveal'.progress = 0
             /\ ~reveal'.animationStarted
             /\ revealFrames' = {}
             /\ \A timer \in revealTimeouts' :
                   timer.anim = revealAnimations']_vars

\* Every pending callback and the last writer of the progress belong to the
\* animation started last.
OnlyTheLatestAnimationWrites ==
    /\ \A timer \in revealTimeouts : timer.anim = revealAnimations
    /\ \A frame \in revealFrames : frame.anim = revealAnimations
    /\ revealWriter \in {0, revealAnimations}

\* An animation is started only for an identity other than the one the
\* chart animated last.
RestartOnlyOnChange ==
    [][revealAnimations' # revealAnimations
          => revealData.identity # reveal.lastDataId]_vars

\* In the end the progress is 1 and stays 1.
ProgressReachesOne == <>[](reveal.progress = FullProgress)

\* C21: while the data identity stays the same the reveal progress never
\* decreases and eventually reaches 1; when the identity changes, the
\* pending start timer and frame of the previous animation are cancelled,
\* the progress restarts from 0 and no callback of the previous animation
\* writes it afterwards; a re-render with the same identity does not
\* restart the animation.
C21_RevealRunsOncePerIdentity ==
    /\ ProgressNeverDecreases
    /\ ChangeCancelsAndRestarts
    /\ []OnlyTheLatestAnimationWrites
    /\ RestartOnlyOnChange
    /\ ProgressReachesOne

\* An animation interrupted by a change of identity was replaced by
\* another, which has run to its end: the data were rendered again since,
\* with the same identity.
C21_Witness ==
    /\ revealAnimations >= 2
    /\ revealChanges >= 1
    /\ reveal.progress = FullProgress
    /\ revealFrames = {}
    /\ revealData.array = 1
    /\ ~revealEffectDue

\* The identity never changes while an animation is half way.
NeverInterrupted ==
    ~(/\ revealEffectDue
      /\ revealData.identity # reveal.lastDataId
      /\ revealFrames # {}
      /\ reveal.progress > 0 /\ reveal.progress < FullProgress)
(***************************************************************************)
(* The grace period of the hover indicator after a touch, on the bar chart *)
(* (WebGLBarChart) and on the heatmap (WebGLHeatmap).  Both arm a timer of *)
(* 2000 ms in handleTouchEnd and keep no handle to it.  Time passes in     *)
(* ticks, GraceTicks of them to the 2000 ms.  The element that takes the   *)
(* touches takes the mouse events too, and their handlers set the same     *)
(* hover state.                                                            *)
(***************************************************************************)
GraceTicks == 2           \* ticks in the 2000 ms of the hover timer
MaxPendingTimers == 2     \* pending hover timers followed

DEFAULT_CELL_SIZE == 12
DEFAULT_CELL_GAP == 4
MARGIN_LEFT == 40
MARGIN_TOP == 30

\* The heatmap's cells by week and day of week: a whole week, and a week of
\* which three days have passed.
HeatmapWeeks == << {0, 1, 2, 3, 4, 5, 6}, {0, 1, 2} >>

\* A cell as the tooltip names it
CellId(weekIndex, dayOfWeek) == weekIndex * 7 + dayOfWeek

\* handleTouchStart of the heatmap: the cell under the first touch, or null
heatmapTouchStart(s, touch) ==
    LET cellX == (touch.x - MARGIN_LEFT)
                    \div (DEFAULT_CELL_SIZE + DEFAULT_CELL_GAP)
        cellY == (touch.y - MARGIN_TOP)
                    \div (DEFAULT_CELL_SIZE + DEFAULT_CELL_GAP)
    IN  IF /\ cellX >= 0 /\ cellX < Len(HeatmapWeeks)
           /\ cellY >= 0 /\ cellY < 7
           /\ cellY \in HeatmapWeeks[cellX + 1]
        THEN [s EXCEPT !.hoveredCell = CellId(cellX, cellY)]
        ELSE [s EXCEPT !.hoveredCell = Null]

\* handleMouseMove of the heatmap: the cell under the pointer, or null
heatmapMouseMove(s, at) ==
    LET cellX == (at.x - MARGIN_LEFT)
                    \div (DEFAULT_CELL_SIZE + DEFAULT_CELL_GAP)
        cellY == (at.y - MARGIN_TOP)
                    \div (DEFAULT_CELL_SIZE + DEFAULT_CELL_GAP)
    IN  IF /\ cellX >= 0 /\ cellX < Len(HeatmapWeeks)
           /\ cellY >= 0 /\ cellY < 7
           /\ cellY \in HeatmapWeeks[cellX + 1]
        THEN [s EXCEPT !.hoveredCell = CellId(cellX, cellY)]
        ELSE [s EXCEPT !.hoveredCell = Null]

\* handleMouseLeave of the heatmap
heatmapMouseLeave(s) == [s EXCEPT !.hoveredCell = Null]

\* The callback of the heatmap's setTimeout(() => setHoveredCell(null), 2000)
ClearHoveredCell(s) == [s EXCEPT !.hoveredCell = Null]

\* The charts touched: the bar chart over four days of data, the heatmap.
GraceBarProps ==
    [chart |-> "bar", width |-> 311, data |-> <<DayMs, 2 * DayMs, 4 * DayMs>>,
     onTimeRangeSelect |-> TRUE]

\* Where a finger can come down: on the bar chart in the plot area (level
\* with each other), on the heatmap on the first cell, on a day to come,
\* and in the left margin.
TouchPoints(kind) ==
    IF kind = "bar"
    THEN { [x |-> marginLeft(GraceBarProps) + o, y |-> 100] : o \in {32, 224} }
    ELSE { [x |-> 44, y |-> 34], [x |-> 60, y |-> 100], [x |-> 10, y |-> 34] }

\* Where the pointer can be over the chart: on the bar chart where a finger
\* can be, on the heatmap on the first day of the second week and in the
\* left margin.
MousePoints(kind) ==
    IF kind = "bar" THEN TouchPoints("bar")
    ELSE { [x |-> 60, y |-> 34], [x |-> 10, y |-> 34] }

XsOf(points) == [i \in 1..Len(points) |-> points[i].x]

TouchStartOn(kind, s, points) ==
    IF kind = "bar" THEN handleTouchStart(GraceBarProps, s, XsOf(points))
    ELSE heatmapTouchStart(s, points[1])

\* The heatmap has no touchmove handler.
TouchMoveOn(kind, s, points) ==
    IF kind = "bar" THEN handleTouchMove(GraceBarProps, s, XsOf(points))
    ELSE s

TouchEndOn(kind, s) == IF kind = "bar" THEN handleTouchEnd(s) ELSE s

MouseMoveOn(kind, s, point) ==
    IF kind = "bar" THEN handleCanvasMouseMoveInView(GraceBarProps, s, point.x)
    ELSE heatmapMouseMove(s, point)

MouseLeaveOn(kind, s) ==
    IF kind = "bar" THEN handleCanvasMouseLeaveBar(s) ELSE heatmapMouseLeave(s)

HoverTimerOn(kind, s) ==
    IF kind = "bar" THEN ClearHover(s) ELSE ClearHoveredCell(s)

\* What the hover guide and the tooltip show (Null: nothing)
HoverShown(kind, s) == IF kind = "bar" THEN s.hoveredBar ELSE s.hoveredCell

NoLift == [lifted |-> FALSE, since |-> 0, hover |-> Null, alone |-> FALSE]

NoTimerRan == [clearedTouch |-> FALSE, afterTeardown |-> FALSE]

GraceIdle ==
    /\ graceChart = [kind |-> "none", mounted |-> FALSE]
    /\ graceState = <<>>
    /\ graceTouches = <<>>
    /\ graceTimers = <<>>
    /\ graceLift = NoLift
    /\ graceTimerRan = NoTimerRan

InitGrace ==
    /\ \E kind \in {"bar", "heatmap"} :
          /\ graceChart = [kind |-> kind, mounted |-> TRUE]
          /\ graceState = IF kind = "bar" THEN NoGesture
                          ELSE [hoveredCell |-> Null]
    /\ graceTouches = <<>>
    /\ graceTimers = <<>>
    /\ graceLift = NoLift
    /\ graceTimerRan = NoTimerRan

\* touchstart: a finger comes down on the chart (the timers pending when a
\* touch begins are those of earlier touches)
GraceTouchStart ==
    /\ graceChart.mounted
    /\ Len(graceTouches) < 2
    /\ \E point \in TouchPoints(graceChart.kind) :
          /\ \A i \in 1..Len(graceTouches) : graceTouches[i] # point
          /\ graceTouches' = Append(graceTouches, point)
          /\ graceState' =
                TouchStartOn(graceChart.kind, graceState, graceTouches')
    /\ graceTimers' =
          IF graceTouches = <<>>
          THEN [i \in 1..Len(graceTimers) |->
                   [graceTimers[i] EXCEPT !.earlier = TRUE]]
          ELSE graceTimers
    /\ graceLift' = NoLift
    /\ UNCHANGED <<graceChart, graceTimerRan>>
    /\ UNCHANGED notGrace

\* touchmove: the first finger moves
GraceTouchMove ==
    /\ graceChart.mounted
    /\ graceTouches # <<>>
    /\ \E point \in TouchPoints(graceChart.kind) :
          /\ \A i \in 1..Len(graceTouches) : graceTouches[i] # point
          /\ graceTouches' = [graceTouches EXCEPT ![1] = point]
          /\ graceState' =
                TouchMoveOn(graceChart.kind, graceState, graceTouches')
    /\ UNCHANGED <<graceChart, graceTimers, graceLift, graceTimerRan>>
    /\ UNCHANGED notGrace

\* mousemove over the chart: the hover state follows the pointer, whatever
\* the touches and the timers are
GraceMouseMove ==
    /\ graceChart.mounted
    /\ \E point \in MousePoints(graceChart.kind) :
          graceState' = MouseMoveOn(graceChart.kind, graceState, point)
    /\ graceLift' = NoLift
    /\ UNCHANGED <<graceChart, graceTouches, graceTimers, graceTimerRan>>
    /\ UNCHANGED notGrace

\* mouseleave: the pointer leaves the chart
GraceMouseLeave ==
    /\ graceChart.mounted
    /\ graceState' = MouseLeaveOn(graceChart.kind, graceState)
    /\ graceLift' = NoLift
    /\ UNCHANGED <<graceChart, graceTouches, graceTimers, graceTimerRan>>
    /\ UNCHANGED notGrace

\* touchend: a finger is lifted, and handleTouchEnd arms a timer
GraceTouchEnd ==
    /\ graceChart.mounted
    /\ graceTouches # <<>>
    /\ Len(graceTimers) < MaxPendingTimers
    /\ \E i \in 1..Len(graceTouches) :
          graceTouches' = SubSeq(graceTouches, 1, i - 1)
                             \o SubSeq(graceTouches, i + 1, Len(graceTouches))
    /\ graceState' = TouchEndOn(graceChart.kind, graceState)
    /\ graceTimers' = Append(graceTimers,
                            [left |-> GraceTicks, earlier |-> FALSE])
    /\ graceLift' =
          IF graceTouches' = <<>>
          THEN [lifted |-> TRUE, since |-> 0,
                hover |-> HoverShown(graceChart.kind, graceState'),
                alone |-> graceTimers = <<>>]
          ELSE NoLift
    /\ UNCHANGED <<graceChart, graceTimerRan>>
    /\ UNCHANGED notGrace

\* The timers with ticks left after one more tick
TimersLeft(timers) ==
    SelectSeq([i \in 1..Len(timers) |-> [timers[i] EXCEPT !.left = @ - 1]],
              LAMBDA t : t.left > 0)

\* A tick passes, and the timers that are due run their callback.
GraceTick ==
    /\ graceTimers # <<>> \/ (graceLift.lifted /\ graceLift.since < GraceTicks)
    /\ LET due == \E i \in 1..Len(graceTimers) : graceTimers[i].left = 1
           dueOfEarlier == \E i \in 1..Len(graceTimers) :
                              graceTimers[i].left = 1 /\ graceTimers[i].earlier
       IN  /\ graceState' =
                 IF due THEN HoverTimerOn(graceChart.kind, graceState)
                 ELSE graceState
           /\ graceTimerRan' =
                 [clearedTouch |->
                     \/ graceTimerRan.clearedTouch
                     \/ /\ dueOfEarlier /\ graceTouches # <<>>
                        /\ HoverShown(graceChart.kind, graceState) # Null,
                  afterTeardown |->
                     \/ graceTimerRan.afterTeardown
                     \/ due /\ ~graceChart.mounted]
    /\ graceTimers' = TimersLeft(graceTimers)
    /\ graceLift' =
          IF graceLift.lifted
          THEN [graceLift EXCEPT !.since = Min(GraceTicks, @ + 1)]
          ELSE graceLift
    /\ UNCHANGED <<graceChart, graceTouches>>
    /\ UNCHANGED notGrace

\* The chart is torn down; no effect cleans up the timers.
GraceUnmount ==
    /\ graceChart.mounted
    /\ graceChart' = [graceChart EXCEPT !.mounted = FALSE]
    /\ graceTouches' = <<>>
    /\ graceLift' = NoLift
    /\ UNCHANGED <<graceState, graceTimers, graceTimerRan>>
    /\ UNCHANGED notGrace
(***************************************************************************)
(* Claims about the hover grace period.                                    *)
(***************************************************************************)
\* The last finger was lifted from a chart showing a hover guide, and since
\* then no finger has come down and no mouse event has reached the chart.
LiftedWithHover ==
    graceChart.mounted /\ graceLift.lifted /\ graceLift.hover # Null

\* The touch-end itself leaves the hover guide as it was.
LiftLeavesHover ==
    LiftedWithHover /\ graceLift.since = 0 =>
        HoverShown(graceChart.kind, graceState) = graceLift.hover

\* Two seconds after the lift the hover guide is cleared.
ClearedTwoSecondsAfterLift ==
    LiftedWithHover /\ graceLift.since >= GraceTicks =>
        HoverShown(graceChart.kind, graceState) = Null

\* C22: after the last touch is lifted, the hover guide and tooltip set by
\* that touch remain visible, and they are cleared 2 seconds after the lift
\* if no further touch occurs.
C22_HoverStaysForTwoSeconds ==
    LiftedWithHover =>
        IF graceLift.since < GraceTicks
        THEN HoverShown(graceChart.kind, graceState) = graceLift.hover
        ELSE HoverShown(graceChart.kind, graceState) = Null

\* With no timer of an earlier touch-end pending at the lift, the hover
\* guide stays for two seconds and is cleared then.
HoverStaysAfterALoneLift ==
    LiftedWithHover /\ graceLift.alone =>
        IF graceLift.since < GraceTicks
        THEN HoverShown(graceChart.kind, graceState) = graceLift.hover
        ELSE HoverShown(graceChart.kind, graceState) = Null

\* The hover guide is never gone within two seconds of the lift.
NeverClearedEarly ==
    ~(/\ LiftedWithHover
      /\ graceLift.since < GraceTicks
      /\ HoverShown(graceChart.kind, graceState) = Null)

\* C23: the clear timer armed by an earlier touch-end never clears the
\* hover state of a later touch whose finger is still down, and no such
\* timer fires after the chart has been torn down.
C23_TimersSpareLaterTouches ==
    ~graceTimerRan.clearedTouch /\ ~graceTimerRan.afterTeardown

\* No timer clears the hover guide under a finger.
NoTimerClearsUnderAFinger == ~graceTimerRan.clearedTouch

\* No timer runs after the teardown.
NoTimerAfterTeardown == ~graceTimerRan.afterTeardown
(***************************************************************************)
(* The bar renderer's bar width: the minimum gap of the data (minGap), the *)
(* width of that gap on the screen, and the width render hands the shader. *)
(* Timestamps are counted in hours and the widths in tenths of a pixel;    *)
(* the data, the chart widths and the view windows are chosen so that the  *)
(* gap on the screen is a whole number of pixels.                          *)
(***************************************************************************)
\* minGap: the smallest positive gap between adjacent points, 1 when there
\* is none
RECURSIVE minTimeGap(_, _)
minTimeGap(data, i) ==
    IF i > Len(data) THEN 0
    ELSE LET gap == data[i] - data[i - 1]
             rest == minTimeGap(data, i + 1)
         IN  IF gap > 0 /\ (rest = 0 \/ gap < rest) THEN gap ELSE rest

minGap(data) ==
    IF Len(data) = 0 \/ minTimeGap(data, 2) = 0 THEN 1
    ELSE minTimeGap(data, 2)

\* minGapPixelWidth, in whole pixels
minGapPixelWidth(p, view) ==
    LET range == currentRange(p, [viewRange |-> view])
        totalTimeRange == range.max - range.min
    IN  IF totalTimeRange > 0
        THEN (minGap(p.data) * chartWidth(p)) \div totalTimeRange
        ELSE chartWidth(p)

\* Math.max(2, Math.min(minGapPixelWidth * 0.7, 12)), in tenths of a pixel
barWidth(gapPixels) == Max(20, Min(7 * gapPixels, 120))

\* The distance on the screen between two timestamps, as the vertex shader
\* places them: normalizedTime * chartWidth, in whole pixels
ScreenDistance(p, view, t1, t2) ==
    LET range == currentRange(p, [viewRange |-> view])
    IN  ((t2 - t1) * chartWidth(p)) \div (range.max - range.min)

PowersOfTwo == { 1, 2, 4, 8, 16, 32, 64, 128, 256, 512 }

MaxWidthPoints == 4

WidthTimestamps == { 0, 1, 2, 32, 64, 128, 256 }

\* Ascending timestamps, equal ones allowed, spanning a power of two hours
\* or none
WidthDataSets ==
    UNION { { d \in [1..n -> WidthTimestamps] :
                /\ \A i \in 2..n : d[i - 1] <= d[i]
                /\ (d[n] = d[1] \/ d[n] - d[1] \in PowersOfTwo) } :
            n \in 1..MaxWidthPoints }

WidthProps ==
    { [chart |-> "bar", width |-> w, data |-> d] :
         w \in { 311, 612 }, d \in WidthDataSets }

\* The view windows a pinch can leave: inside the data and at least a day
\* long
WidthViews(p) ==
    { <<>> } \cup
    { << [start |-> a, end |-> b] >> :
         a \in { t \in WidthTimestamps : t >= timeRange(p).min },
         b \in { t \in WidthTimestamps : t <= timeRange(p).max } }

WidthViewsOf(p) ==
    { v \in WidthViews(p) :
        v = <<>> \/ (v[1].end - v[1].start \in PowersOfTwo
                       /\ v[1].end - v[1].start >= 24) }

NotRendered == [rendered |-> FALSE, barWidth |-> 0]

BarWidthIdle ==
    /\ widthProps = [chart |-> "bar", width |-> 311, data |-> <<0>>]
    /\ widthView = <<>>
    /\ widthDrawn = NotRendered

InitBarWidth ==
    /\ widthProps \in WidthProps
    /\ widthView \in WidthViewsOf(widthProps)
    /\ widthDrawn = NotRendered

\* render: gl.uniform1f(uniforms.u_barWidth, barWidth * dpr), dpr = 1
RenderBars ==
    /\ ~widthDrawn.rendered
    /\ widthDrawn' =
          [rendered |-> TRUE,
           barWidth |-> barWidth(minGapPixelWidth(widthProps, widthView))]
    /\ UNCHANGED <<widthProps, widthView>>
    /\ UNCHANGED notBarWidth
(***************************************************************************)
(* Claims about the bar width.                                             *)
(***************************************************************************)
\* The pairs of adjacent points with distinct timestamps
DistinctNeighbours(data) == { i \in 2..Len(data) : data[i] > data[i - 1] }

\* The distance on the screen, in pixels, between the two closest adjacent
\* points with distinct timestamps
ClosestOnScreen ==
    LET i == CHOOSE k \in DistinctNeighbours(widthProps.data) :
                \A j \in DistinctNeighbours(widthProps.data) :
                    widthProps.data[k] - widthProps.data[k - 1]
                        <= widthProps.data[j] - widthProps.data[j - 1]
    IN  ScreenDistance(widthProps, widthView,
                       widthProps.data[i - 1], widthProps.data[i])

HasDistinctNeighbours == DistinctNeighbours(widthProps.data) # {}

\* The bar width is at most 12 pixels.
AtMostTwelvePixels == widthDrawn.rendered => widthDrawn.barWidth <= 120

\* The bar width is at least 2 pixels.
AtLeastTwoPixels == widthDrawn.rendered => widthDrawn.barWidth >= 20

\* The bar width is at most 70% of the distance on the screen between the
\* two closest adjacent points with distinct timestamps.
AtMostSeventyPercentOfTheGap ==
    (widthDrawn.rendered /\ HasDistinctNeighbours)
        => widthDrawn.barWidth <= 7 * ClosestOnScreen

\* No two bars at distinct timestamps overlap: the bar width is at most the
\* distance between the two closest ones.
NoTwoBarsOverlap ==
    (widthDrawn.rendered /\ HasDistinctNeighbours)
        => widthDrawn.barWidth <= 10 * ClosestOnScreen

\* C26: for every data set, chart width and view window, the bar width
\* chosen by the bar renderer is at most 12 pixels and at most 70% of the
\* on-screen distance between the two closest adjacent points with distinct
\* timestamps, so no two bars at distinct timestamps overlap.
C26_BarsNeverOverlap ==
    /\ AtMostTwelvePixels
    /\ AtMostSeventyPercentOfTheGap
    /\ NoTwoBarsOverlap

\* Wherever 70% of the gap is two pixels or more, the claim's bounds hold.
WideGapsKeepTheBounds ==
    (widthDrawn.rendered /\ HasDistinctNeighbours /\ 7 * ClosestOnScreen >= 20)
        => (widthDrawn.barWidth <= 7 * ClosestOnScreen
              /\ widthDrawn.barWidth <= 120)

\* The gap render measures is the gap on the screen.
MeasuredGapIsOnScreen ==
    HasDistinctNeighbours
        => minGapPixelWidth(widthProps, widthView) = ClosestOnScreen

\* No render ever draws bars narrower than 12 pixels under the 70% bound.
NeverNarrowedByTheGap ==
    ~(widthDrawn.rendered /\ HasDistinctNeighbours
        /\ widthDrawn.barWidth < 120
        /\ widthDrawn.barWidth = 7 * ClosestOnScreen)
(***************************************************************************)
(* The other components at rest.                                           *)
(***************************************************************************)
OnlyDecoder == ApiIdle /\ ChartIdle /\ TransformerIdle /\ AnomalyIdle /\ DeltaGainsIdle /\ SnapshotGainsIdle /\ HeatmapIdle /\ PageIdle /\ CombatIdle /\ GestureIdle /\ RevealIdle /\ GraceIdle /\ OverflowIdle /\ BarWidthIdle /\ TrackerIdle /\ DayGainsIdle /\ BreakdownIdle

OnlyApi == DecoderIdle /\ ChartIdle /\ TransformerIdle /\ AnomalyIdle /\ DeltaGainsIdle /\ SnapshotGainsIdle /\ HeatmapIdle /\ PageIdle /\ CombatIdle /\ GestureIdle /\ RevealIdle /\ GraceIdle /\ OverflowIdle /\ BarWidthIdle /\ TrackerIdle /\ DayGainsIdle /\ BreakdownIdle

OnlyChart == DecoderIdle /\ ApiIdle /\ TransformerIdle /\ AnomalyIdle /\ DeltaGainsIdle /\ SnapshotGainsIdle /\ HeatmapIdle /\ PageIdle /\ CombatIdle /\ GestureIdle /\ RevealIdle /\ GraceIdle /\ OverflowIdle /\ BarWidthIdle /\ TrackerIdle /\ DayGainsIdle /\ BreakdownIdle

OnlyTransformer == DecoderIdle /\ ApiIdle /\ ChartIdle /\ AnomalyIdle /\ DeltaGainsIdle /\ SnapshotGainsIdle /\ HeatmapIdle /\ PageIdle /\ CombatIdle /\ GestureIdle /\ RevealIdle /\ GraceIdle /\ OverflowIdle /\ BarWidthIdle /\ TrackerIdle /\ DayGainsIdle /\ BreakdownIdle

OnlyAnomaly == DecoderIdle /\ ApiIdle /\ ChartIdle /\ TransformerIdle /\ DeltaGainsIdle /\ SnapshotGainsIdle /\ HeatmapIdle /\ PageIdle /\ CombatIdle /\ GestureIdle /\ RevealIdle /\ GraceIdle /\ OverflowIdle /\ BarWidthIdle /\ TrackerIdle /\ DayGainsIdle /\ BreakdownIdle

OnlyDeltaGains == DecoderIdle /\ ApiIdle /\ ChartIdle /\ TransformerIdle /\ AnomalyIdle /\ SnapshotGainsIdle /\ HeatmapIdle /\ PageIdle /\ CombatIdle /\ GestureIdle /\ RevealIdle /\ GraceIdle /\ OverflowIdle /\ BarWidthIdle /\ TrackerIdle /\ DayGainsIdle /\ BreakdownIdle

OnlySnapshotGains == DecoderIdle /\ ApiIdle /\ ChartIdle /\ TransformerIdle /\ AnomalyIdle /\ DeltaGainsIdle /\ HeatmapIdle /\ PageIdle /\ CombatIdle /\ GestureIdle /\ RevealIdle /\ GraceIdle /\ OverflowIdle /\ BarWidthIdle /\ TrackerIdle /\ DayGainsIdle /\ BreakdownIdle

OnlyHeatmap == DecoderIdle /\ ApiIdle /\ ChartIdle /\ TransformerIdle /\ AnomalyIdle /\ DeltaGainsIdle /\ SnapshotGainsIdle /\ PageIdle /\ CombatIdle /\ GestureIdle /\ RevealIdle /\ GraceIdle /\ OverflowIdle /\ BarWidthIdle /\ TrackerIdle /\ DayGainsIdle /\ BreakdownIdle

OnlyPage == DecoderIdle /\ ApiIdle /\ ChartIdle /\ TransformerIdle /\ AnomalyIdle /\ DeltaGainsIdle /\ SnapshotGainsIdle /\ HeatmapIdle /\ CombatIdle /\ GestureIdle /\ RevealIdle /\ GraceIdle /\ OverflowIdle /\ BarWidthIdle /\ TrackerIdle /\ DayGainsIdle /\ BreakdownIdle

OnlyCombat == DecoderIdle /\ ApiIdle /\ ChartIdle /\ TransformerIdle /\ AnomalyIdle /\ DeltaGainsIdle /\ SnapshotGainsIdle /\ HeatmapIdle /\ PageIdle /\ GestureIdle /\ RevealIdle /\ GraceIdle /\ OverflowIdle /\ BarWidthIdle /\ TrackerIdle /\ DayGainsIdle /\ BreakdownIdle

OnlyGesture == DecoderIdle /\ ApiIdle /\ ChartIdle /\ TransformerIdle /\ AnomalyIdle /\ DeltaGainsIdle /\ SnapshotGainsIdle /\ HeatmapIdle /\ PageIdle /\ CombatIdle /\ RevealIdle /\ GraceIdle /\ OverflowIdle /\ BarWidthIdle /\ TrackerIdle /\ DayGainsIdle /\ BreakdownIdle

OnlyReveal == DecoderIdle /\ ApiIdle /\ ChartIdle /\ TransformerIdle /\ AnomalyIdle /\ DeltaGainsIdle /\ SnapshotGainsIdle /\ HeatmapIdle /\ PageIdle /\ CombatIdle /\ GestureIdle /\ GraceIdle /\ OverflowIdle /\ BarWidthIdle /\ TrackerIdle /\ DayGainsIdle /\ BreakdownIdle

OnlyGrace == DecoderIdle /\ ApiIdle /\ ChartIdle /\ TransformerIdle /\ AnomalyIdle /\ DeltaGainsIdle /\ SnapshotGainsIdle /\ HeatmapIdle /\ PageIdle /\ CombatIdle /\ GestureIdle /\ RevealIdle /\ OverflowIdle /\ BarWidthIdle /\ TrackerIdle /\ DayGainsIdle /\ BreakdownIdle

OnlyOverflow == DecoderIdle /\ ApiIdle /\ ChartIdle /\ TransformerIdle /\ AnomalyIdle /\ DeltaGainsIdle /\ SnapshotGainsIdle /\ HeatmapIdle /\ PageIdle /\ CombatIdle /\ GestureIdle /\ RevealIdle /\ GraceIdle /\ BarWidthIdle /\ TrackerIdle /\ DayGainsIdle /\ BreakdownIdle

OnlyBarWidth == DecoderIdle /\ ApiIdle /\ ChartIdle /\ TransformerIdle /\ AnomalyIdle /\ DeltaGainsIdle /\ SnapshotGainsIdle /\ HeatmapIdle /\ PageIdle /\ CombatIdle /\ GestureIdle /\ RevealIdle /\ GraceIdle /\ OverflowIdle /\ TrackerIdle /\ DayGainsIdle /\ BreakdownIdle

OnlyTracker == DecoderIdle /\ ApiIdle /\ ChartIdle /\ TransformerIdle /\ AnomalyIdle /\ DeltaGainsIdle /\ SnapshotGainsIdle /\ HeatmapIdle /\ PageIdle /\ CombatIdle /\ GestureIdle /\ RevealIdle /\ GraceIdle /\ OverflowIdle /\ BarWidthIdle /\ DayGainsIdle /\ BreakdownIdle

OnlyDayGains == DecoderIdle /\ ApiIdle /\ ChartIdle /\ TransformerIdle /\ AnomalyIdle /\ DeltaGainsIdle /\ SnapshotGainsIdle /\ HeatmapIdle /\ PageIdle /\ CombatIdle /\ GestureIdle /\ RevealIdle /\ GraceIdle /\ OverflowIdle /\ BarWidthIdle /\ TrackerIdle /\ BreakdownIdle

OnlyBreakdown == DecoderIdle /\ ApiIdle /\ ChartIdle /\ TransformerIdle /\ AnomalyIdle /\ DeltaGainsIdle /\ SnapshotGainsIdle /\ HeatmapIdle /\ PageIdle /\ CombatIdle /\ GestureIdle /\ RevealIdle /\ GraceIdle /\ OverflowIdle /\ BarWidthIdle /\ TrackerIdle /\ DayGainsIdle
(***************************************************************************)
(* Specifications: one per component, the other components at rest.        *)
(***************************************************************************)
DecoderStart == InitDecoder /\ OnlyDecoder

NextDecoder == Decode

SpecDecoder == DecoderStart /\ [][NextDecoder]_vars

ApiStart == ApiIdle /\ OnlyApi

NextApi ==
    \/ ApiCall
    \/ ApiFetchRejects
    \/ ApiFetchResponds
    \/ ApiBodyArrives
    \/ ApiDeliver

SpecApi == ApiStart /\ [][NextApi]_vars

ChartStart == InitChart /\ OnlyChart

NextChart ==
    \/ LineMouseDown
    \/ LineMouseMove
    \/ LineMouseLeave
    \/ LineMouseUp
    \/ BarMouseDown
    \/ BarMouseMove
    \/ BarMouseLeave
    \/ BarMouseUp

SpecChart == ChartStart /\ [][NextChart]_vars

TransformerStart == (InitTransformer \/ InitTransformerTypes) /\ OnlyTransformer

NextTransformer ==
    \/ GenerateChartData
    \/ GenerateChartDataFromDeltas
    \/ GenerateChartDataAgain
    \/ GenerateChartDataFromDeltasAgain

SpecTransformer == TransformerStart /\ [][NextTransformer]_vars

AnomalyStart == InitAnomaly /\ OnlyAnomaly

NextAnomaly ==
    \/ DetectAnomalies
    \/ DetectAnomaliesOfSelector

SpecAnomaly == AnomalyStart /\ [][NextAnomaly]_vars

DeltaGainsStart == InitDeltaGains /\ OnlyDeltaGains

NextDeltaGains == CalculateGainsFromDeltas

SpecDeltaGains == DeltaGainsStart /\ [][NextDeltaGains]_vars

SnapshotGainsStart == InitSnapshotGains /\ OnlySnapshotGains

NextSnapshotGains == CalculateGains

SpecSnapshotGains == SnapshotGainsStart /\ [][NextSnapshotGains]_vars

HeatmapStart == InitHeatmap /\ OnlyHeatmap

NextHeatmap == GenerateCells

SpecHeatmap == HeatmapStart /\ [][NextHeatmap]_vars

PageStart == InitPage /\ OnlyPage

NextPage ==
    \/ RunEffect
    \/ SelectUser
    \/ SelectRange
    \/ Refetch
    \/ FetchSucceeds
    \/ FetchFails

SpecPage == PageStart /\ [][NextPage]_vars

CombatStart == InitCombat /\ OnlyCombat

NextCombat == CalculateCombatLevel

SpecCombat == CombatStart /\ [][NextCombat]_vars

GestureStart == InitGesture /\ OnlyGesture

NextGesture ==
    \/ GestureMouseDown
    \/ GestureMouseMove
    \/ GestureMouseUp
    \/ TouchStart
    \/ TouchMove
    \/ TouchEnd
    \/ HoverTimerFires
    \/ ResetZoom

SpecGesture == GestureStart /\ [][NextGesture]_vars

RevealStart == InitReveal /\ OnlyReveal

NextReveal ==
    \/ GlBecomesReady
    \/ DataChanges
    \/ DataRerendered
    \/ AnimationEffect
    \/ StartTimerFires
    \/ RevealTick
    \/ AnimationFrameFires

SpecReveal == RevealStart /\ [][NextReveal]_vars

\* The browser runs the effects, fires the timers and the frames, and its
\* clock advances.
SpecRevealLive ==
    /\ SpecReveal
    /\ WF_vars(GlBecomesReady)
    /\ WF_vars(AnimationEffect)
    /\ WF_vars(StartTimerFires)
    /\ WF_vars(RevealTick)
    /\ WF_vars(AnimationFrameFires)

GraceStart == InitGrace /\ OnlyGrace

NextGrace ==
    \/ GraceTouchStart
    \/ GraceTouchMove
    \/ GraceTouchEnd
    \/ GraceMouseMove
    \/ GraceMouseLeave
    \/ GraceTick
    \/ GraceUnmount

SpecGrace == GraceStart /\ [][NextGrace]_vars

OverflowStart == InitOverflow /\ OnlyOverflow

NextOverflow == DrawDailyBars

SpecOverflow == OverflowStart /\ [][NextOverflow]_vars

BarWidthStart == InitBarWidth /\ OnlyBarWidth

NextBarWidth == RenderBars

SpecBarWidth == BarWidthStart /\ [][NextBarWidth]_vars

TrackerStart == InitTracker /\ OnlyTracker

NextTracker ==
    \/ TrackerChart
    \/ TrackerTotal

SpecTracker == TrackerStart /\ [][NextTracker]_vars

DayGainsStart == InitDayGains /\ OnlyDayGains

NextDayGains ==
    \/ AggregateDeltas
    \/ AggregateSnapshots

SpecDayGains == DayGainsStart /\ [][NextDayGains]_vars

BreakdownStart == InitBreakdown /\ OnlyBreakdown

NextBreakdown ==
    \/ BreakdownOfSnapshots
    \/ BreakdownOfDeltas

SpecBreakdown == BreakdownStart /\ [][NextBreakdown]_vars
====
